---------------------------- MODULE Spec2Model ----------------------------
(***************************************************************************)
(* Verification model of the wasm-game components: the damage engine and   *)
(* battle state machine (combat), the stats and leveling engine (player),  *)
(* the enemy damage engine and AI (enemy), the inventory management and    *)
(* item usage (inventory), the orchestrator and world queries              *)
(* (game_engine) and the command-line driver (command).  Every library     *)
(* component is a set of pure functions over value structs; each gets one  *)
(* specification whose state is the struct the functions transform and     *)
(* whose actions are the exported functions.  The driver's specification   *)
(* is its game loop over the SimpleGameState.                              *)
(***************************************************************************)
EXTENDS Integers, Sequences, FiniteSets, TLC

VARIABLES
    dmg,      \* damage engine: the arguments of a calculate_final_damage call and its result
    player,   \* player component: the PlayerStats value threaded through the stats calls
    expq,     \* player component: the last two exp_to_next_level queries
    enemy,    \* enemy component: the EnemyState value threaded through the calls
    battle,   \* combat component: the BattleState value threaded through the calls
    inventory, \* inventory component: the InventoryState value threaded through the calls
    used,     \* inventory component: the arguments of a use_item call and its UseResult
    healq,    \* the arguments of a calculate_healed_health call and its results
    ai,       \* enemy component: the last update_behavior / calculate_move query
    steps,    \* the bookkeeping of a caller that repeats a call
    engine,   \* game engine: the arguments of a query and its result
    game,     \* command driver: the SimpleGameState of the CLI and its loop
    op        \* the exported function applied last, with its arguments

vars == <<dmg, player, expq, enemy, battle, inventory, used, healq, ai, steps, engine, game, op>>

(***************************************************************************)
(* Bounds of the model.                                                    *)
(***************************************************************************)
MaxAttack == 28       \* attack stat of a combatant handed to the damage engine
MaxEquip == 3         \* equipment bonus of a combatant
MaxDefense == 24      \* defense stat of a combatant
MaxGain == 400        \* largest experience gain of one gain_experience call
MaxExp == 800         \* cap on the accumulated experience
MaxRaw == 250         \* largest raw damage of a take_damage call
MaxHealAmount == 60   \* largest amount of a heal call
MaxLevel == 48        \* largest level queried through exp_to_next_level
MaxHp == 3            \* largest health handed to start_battle / update_health
MaxTurns == 4         \* cap on turn_count
MaxCoord == 1         \* largest coordinate of a spawn position
MaxGold == 5          \* cap on the gold of an inventory
MaxUseHealth == 120   \* largest health value handed to use_item
MaxHealValue == 6     \* largest value handed to calculate_healed_health
MaxMove == 3          \* largest absolute coordinate of a calculate_move position
MaxOutside == 2       \* width of the margin around the world grid that is queried
MaxPursuit == 2       \* largest absolute coordinate of a pursuit position
MaxSteps == 6         \* cap on the number of repeated calculate_move steps
MaxHits == 201        \* cap on the number of repeated take_damage calls
MaxFreeCommands == 4   \* commands of any kind read after the prefix of a script

(***************************************************************************)
(* u32 values that may exceed the model checker's integers are kept as two *)
(* 16-bit halves.                                                          *)
(***************************************************************************)
U32(n) == [hi |-> n \div 65536, lo |-> n % 65536]

U32_MAX == [hi |-> 65535, lo |-> 65535]

U32Lt(a, b) == a.hi < b.hi \/ (a.hi = b.hi /\ a.lo < b.lo)

U32Ge(a, b) == ~U32Lt(a, b)

(***************************************************************************)
(* IEEE-754 binary32, for the values the leveling engine computes: a       *)
(* finite positive value is m * 2^e with 2^23 <= m < 2^24; inf marks       *)
(* +infinity.  Products round to nearest, ties to even.                    *)
(***************************************************************************)
F32Inf == [inf |-> TRUE, m |-> 0, e |-> 0]

RECURSIVE F32Normal(_, _)
F32Normal(m, e) == IF m >= 8388608 THEN [inf |-> FALSE, m |-> m, e |-> e]
                   ELSE F32Normal(m * 2, e - 1)

\* `n as f32` for 0 < n < 2^24 (exact)
F32FromInt(n) == F32Normal(n, 0)

F32Mul(a, b) ==
    IF a.inf \/ b.inf THEN F32Inf
    ELSE
      LET a1 == a.m \div 4096
          a0 == a.m % 4096
          b1 == b.m \div 4096
          b0 == b.m % 4096
          cross == a1 * b0 + a0 * b1
          lofull == a0 * b0 + (cross % 4096) * 4096
          lo == lofull % 16777216
          hi == a1 * b1 + (cross \div 4096) + (lofull \div 16777216)
          \* the exact product is hi * 2^24 + lo, in [2^46, 2^48)
          wide == hi >= 8388608
          mant0 == IF wide THEN hi ELSE hi * 2 + (lo \div 8388608)
          rem == IF wide THEN lo ELSE lo % 8388608
          half == IF wide THEN 8388608 ELSE 4194304
          e0 == a.e + b.e + (IF wide THEN 24 ELSE 23)
          up == rem > half \/ (rem = half /\ mant0 % 2 = 1)
          mant1 == IF up THEN mant0 + 1 ELSE mant0
          m == IF mant1 = 16777216 THEN 8388608 ELSE mant1
          e == IF mant1 = 16777216 THEN e0 + 1 ELSE e0
      IN IF e > 104 THEN F32Inf ELSE [inf |-> FALSE, m |-> m, e |-> e]

\* `x as u32`: truncation toward zero, saturating at u32::MAX
F32ToU32(x) ==
    IF x.inf \/ x.e >= 9 THEN U32_MAX
    ELSE IF x.e >= 0
         THEN [hi |-> x.m \div (2 ^ (16 - x.e)),
               lo |-> (x.m % (2 ^ (16 - x.e))) * (2 ^ x.e)]
    ELSE IF x.e <= -24 THEN U32(0)
    ELSE U32(x.m \div (2 ^ (0 - x.e)))

\* f32::powi for an exponent b >= 0: multiply-and-square over the bits of b
RECURSIVE powi_loop(_, _, _)
powi_loop(a, pow, mul) ==
    LET mul1 == IF pow % 2 = 1 THEN F32Mul(mul, a) ELSE mul
        pow1 == pow \div 2
    IN IF pow1 = 0 THEN mul1 ELSE powi_loop(F32Mul(a, a), pow1, mul1)

powi(a, b) == powi_loop(a, b, F32FromInt(1))

(***************************************************************************)
(* Player component (src/player/src/lib.rs).                               *)
(***************************************************************************)
STARTING_HEALTH == 100
STARTING_ATTACK == 10
STARTING_DEFENSE == 5
BASE_EXP_REQUIREMENT == 100
HEALTH_PER_LEVEL == 20
ATTACK_PER_LEVEL == 3
DEFENSE_PER_LEVEL == 2

\* const EXP_MULTIPLIER: f32 = 1.5
EXP_MULTIPLIER == [inf |-> FALSE, m |-> 12582912, e |-> -23]

Max(a, b) == IF a >= b THEN a ELSE b

Min(a, b) == IF a <= b THEN a ELSE b

\* u32::saturating_sub
saturating_sub(a, b) == IF a >= b THEN a - b ELSE 0

create_default_stats ==
    [health |-> STARTING_HEALTH, max_health |-> STARTING_HEALTH,
     attack |-> STARTING_ATTACK, defense |-> STARTING_DEFENSE,
     experience |-> 0, level |-> 1]

player_calculate_effective_damage(raw_damage, defense) ==
    LET reduction == defense \div 2
    IN Max(saturating_sub(raw_damage, reduction), 1)

apply_damage_to_health(current_health, damage) == saturating_sub(current_health, damage)

\* mutant: the cap is applied as a floor
player_calculate_healed_health_floor(current, amount, max) == Max(current + amount, max)

player_calculate_healed_health(current, amount, max) == Min(current + amount, max)

\* mutant: the exponent is the level, not the level minus one
calculate_exp_requirement_off_by_one(level) ==
    LET multiplier == powi(EXP_MULTIPLIER, level)
    IN F32ToU32(F32Mul(F32FromInt(BASE_EXP_REQUIREMENT), multiplier))

calculate_exp_requirement(level) ==
    LET multiplier == powi(EXP_MULTIPLIER, level - 1)
    IN F32ToU32(F32Mul(F32FromInt(BASE_EXP_REQUIREMENT), multiplier))

should_level_up(experience, level) ==
    LET required == calculate_exp_requirement(level)
    IN U32Ge(U32(experience), required)

level_up_max_health(current_max) == current_max + HEALTH_PER_LEVEL

level_up_attack(current) == current + ATTACK_PER_LEVEL

level_up_defense(current) == current + DEFENSE_PER_LEVEL

\* mutant: the level-up step spends the experience
apply_level_up_reset_exp(stats) ==
    [health |-> level_up_max_health(stats.max_health),
     max_health |-> level_up_max_health(stats.max_health),
     attack |-> level_up_attack(stats.attack),
     defense |-> level_up_defense(stats.defense),
     experience |-> 0,
     level |-> stats.level + 1]

apply_level_up(stats) ==
    [health |-> level_up_max_health(stats.max_health),
     max_health |-> level_up_max_health(stats.max_health),
     attack |-> level_up_attack(stats.attack),
     defense |-> level_up_defense(stats.defense),
     experience |-> stats.experience,
     level |-> stats.level + 1]

create_stats_with_exp(stats, new_exp) ==
    [health |-> stats.health, max_health |-> stats.max_health,
     attack |-> stats.attack, defense |-> stats.defense,
     experience |-> new_exp, level |-> stats.level]

\* mutant: the level-up step repeated for as long as the experience pays for it
RECURSIVE check_and_apply_level_up_while(_)
check_and_apply_level_up_while(stats) ==
    IF should_level_up(stats.experience, stats.level)
    THEN check_and_apply_level_up_while(apply_level_up(stats))
    ELSE stats

check_and_apply_level_up(stats) ==
    IF should_level_up(stats.experience, stats.level)
    THEN apply_level_up(stats)
    ELSE stats

process_experience_gain(stats, exp) ==
    LET new_exp == stats.experience + exp
        updated == create_stats_with_exp(stats, new_exp)
    IN check_and_apply_level_up(updated)

create_player == create_default_stats

player_take_damage(stats, raw_damage) ==
    LET effective == player_calculate_effective_damage(raw_damage, stats.defense)
        new_health == apply_damage_to_health(stats.health, effective)
    IN [stats EXCEPT !.health = new_health]

\* mutant: the healed health is not capped at max_health
heal_uncapped(stats, amount) ==
    [stats EXCEPT !.health = stats.health + amount]

heal(stats, amount) ==
    LET new_health == player_calculate_healed_health(stats.health, amount, stats.max_health)
    IN [stats EXCEPT !.health = new_health]

gain_experience(stats, exp) == process_experience_gain(stats, exp)

exp_to_next_level(current_level) == calculate_exp_requirement(current_level)

(***************************************************************************)
(* Combat component, damage engine (src/combat/src/lib.rs).                *)
(***************************************************************************)
CRITICAL_MULTIPLIER == 2
MINIMUM_DAMAGE == 1
ATTACK_DIVISOR == 10

AttackType == {"SwordSlash", "SpinAttack", "BowShot", "MagicAttack", "ShieldBash"}

attack_base_damage(attack) ==
    CASE attack = "SwordSlash" -> 10
      [] attack = "SpinAttack" -> 20
      [] attack = "BowShot" -> 8
      [] attack = "MagicAttack" -> 15
      [] attack = "ShieldBash" -> 5

\* mutant: the equipment bonus is left out of the multiplier
calculate_multiplier_no_equipment(attack_stat, equipment) ==
    1 + attack_stat \div ATTACK_DIVISOR

calculate_multiplier(attack_stat, equipment) ==
    1 + (attack_stat + equipment) \div ATTACK_DIVISOR

calculate_raw_damage(base, multiplier) == base * multiplier

calculate_defense_reduction(defense) == defense \div 2

\* mutant: the floor of MINIMUM_DAMAGE is left out
apply_defense_reduction_no_floor(raw, reduction) == saturating_sub(raw, reduction)

apply_defense_reduction(raw, reduction) ==
    Max(saturating_sub(raw, reduction), MINIMUM_DAMAGE)

is_critical_hit(attack) == attack % 10 = 7

apply_critical_multiplier(damage, is_crit) ==
    IF is_crit THEN damage * CRITICAL_MULTIPLIER ELSE damage

calculate_base_damage(attack, attacker_stats) ==
    LET base == attack_base_damage(attack)
        mult == calculate_multiplier(attacker_stats.attack, attacker_stats.equipment_bonus)
    IN calculate_raw_damage(base, mult)

apply_defense(raw_damage, defender_defense) ==
    LET reduction == calculate_defense_reduction(defender_defense)
    IN apply_defense_reduction(raw_damage, reduction)

roll_critical(attacker_attack) == IF is_critical_hit(attacker_attack) THEN 1 ELSE 0

apply_critical(damage, is_critical) == apply_critical_multiplier(damage, is_critical = 1)

calculate_final_damage(attack, attacker, defender) ==
    LET base == calculate_base_damage(attack, attacker)
        after_def == apply_defense(base, defender.defense)
        crit == roll_critical(attacker.attack)
    IN apply_critical(after_def, crit)

(***************************************************************************)
(* Combat component, battle state machine (src/combat/src/lib.rs).         *)
(***************************************************************************)
create_battle_state(player_hp, enemy_hp) ==
    [is_active |-> TRUE, turn_count |-> 0, player_health |-> player_hp,
     enemy_health |-> enemy_hp, is_player_turn |-> TRUE]

\* mutant: is_active is left as it was
end_battle_state_unchanged(state) == state

end_battle_state(state) == [state EXCEPT !.is_active = FALSE]

\* mutant: the turn counter advances but the turn does not change sides
advance_turn_no_flip(state) ==
    [state EXCEPT !.turn_count = state.turn_count + 1]

advance_turn(state) ==
    [state EXCEPT !.turn_count = state.turn_count + 1,
                  !.is_player_turn = ~state.is_player_turn]

\* mutant: the state is rebuilt from the two health values
update_battle_health_rebuilt(state, player_hp, enemy_hp) ==
    create_battle_state(player_hp, enemy_hp)

update_battle_health(state, player_hp, enemy_hp) ==
    [state EXCEPT !.player_health = player_hp, !.enemy_health = enemy_hp]

\* mutant: the enemy's health is not looked at
check_battle_over_player_only(state) ==
    ~state.is_active \/ state.player_health = 0

check_battle_over(state) ==
    ~state.is_active \/ state.player_health = 0 \/ state.enemy_health = 0

determine_player_won(state) == state.enemy_health = 0 /\ state.player_health > 0

start_battle(player_health, enemy_health) == create_battle_state(player_health, enemy_health)

end_battle(state) == end_battle_state(state)

next_turn(state) == advance_turn(state)

update_health(state, player_health, enemy_health) ==
    update_battle_health(state, player_health, enemy_health)

is_battle_over(state) == check_battle_over(state)

player_won(state) == determine_player_won(state)

(***************************************************************************)
(* Enemy component (src/enemy/src/lib.rs).                                 *)
(***************************************************************************)
EnemyKind == {"Slime", "Skeleton", "Bat", "Goblin", "DarkKnight", "Boss"}

base_health(kind) ==
    CASE kind = "Slime" -> 30
      [] kind = "Skeleton" -> 50
      [] kind = "Bat" -> 20
      [] kind = "Goblin" -> 40
      [] kind = "DarkKnight" -> 80
      [] kind = "Boss" -> 200

base_attack(kind) ==
    CASE kind = "Slime" -> 5
      [] kind = "Skeleton" -> 12
      [] kind = "Bat" -> 8
      [] kind = "Goblin" -> 10
      [] kind = "DarkKnight" -> 20
      [] kind = "Boss" -> 30

base_defense(kind) ==
    CASE kind = "Slime" -> 2
      [] kind = "Skeleton" -> 5
      [] kind = "Bat" -> 1
      [] kind = "Goblin" -> 4
      [] kind = "DarkKnight" -> 15
      [] kind = "Boss" -> 20

base_exp_reward(kind) ==
    CASE kind = "Slime" -> 10
      [] kind = "Skeleton" -> 25
      [] kind = "Bat" -> 15
      [] kind = "Goblin" -> 20
      [] kind = "DarkKnight" -> 50
      [] kind = "Boss" -> 100

default_behavior(kind) ==
    CASE kind = "Slime" -> "Wander"
      [] kind = "Skeleton" -> "Guard"
      [] kind = "Bat" -> "Chase"
      [] kind = "Goblin" -> "Chase"
      [] kind = "DarkKnight" -> "Guard"
      [] kind = "Boss" -> "BossPattern"

create_enemy_state(kind, pos) ==
    LET health == base_health(kind)
    IN [kind |-> kind, health |-> health, max_health |-> health,
        attack |-> base_attack(kind), defense |-> base_defense(kind),
        exp_reward |-> base_exp_reward(kind), pos |-> pos,
        current_behavior |-> default_behavior(kind), is_alive |-> TRUE]

create_boss_state(pos) ==
    [kind |-> "Boss", health |-> 200, max_health |-> 200, attack |-> 30,
     defense |-> 20, exp_reward |-> 100, pos |-> pos,
     current_behavior |-> "BossPattern", is_alive |-> TRUE]

\* mutant: the whole defense is subtracted, not half of it
enemy_calculate_effective_damage_full_defense(raw_damage, defense) ==
    LET reduction == defense
    IN Max(saturating_sub(raw_damage, reduction), 1)


\* mutant: the floor of 1 is left out
enemy_calculate_effective_damage_no_floor(raw_damage, defense) ==
    LET reduction == defense \div 2
    IN saturating_sub(raw_damage, reduction)

enemy_calculate_effective_damage(raw_damage, defense) ==
    LET reduction == defense \div 2
    IN Max(saturating_sub(raw_damage, reduction), 1)

\* mutant: is_alive is tested with >= instead of >
apply_damage_alive_at_zero(e, damage) ==
    LET new_health == saturating_sub(e.health, damage)
        is_alive == new_health >= 0
    IN [e EXCEPT !.health = new_health, !.is_alive = is_alive]

apply_damage(e, damage) ==
    LET new_health == saturating_sub(e.health, damage)
        is_alive == new_health > 0
    IN [e EXCEPT !.health = new_health, !.is_alive = is_alive]

spawn_to_types_pos(pos) == [x |-> pos.x, y |-> pos.y]

spawn_enemy(kind, pos) == create_enemy_state(kind, spawn_to_types_pos(pos))

spawn_boss(pos) == create_boss_state(spawn_to_types_pos(pos))

get_base_stats(kind) == create_enemy_state(kind, [x |-> 0, y |-> 0])

enemy_take_damage(e, raw_damage) ==
    LET effective == enemy_calculate_effective_damage(raw_damage, e.defense)
    IN apply_damage(e, effective)

enemy_is_defeated(e) == ~e.is_alive \/ e.health = 0

(***************************************************************************)
(* Enemy component, AI (src/enemy/src/lib.rs).                             *)
(***************************************************************************)
FLEE_THRESHOLD == 20

Behavior == {"Chase", "Flee", "Wander", "Guard", "BossPattern"}

\* mutant: the remainder is never negative
i32_rem_euclid(a, b) == a % b

\* `a % b` on i32 for b > 0: the remainder takes the sign of a
i32_rem(a, b) == IF a >= 0 THEN a % b ELSE 0 - ((0 - a) % b)

step_toward_x(enemy_x, player_x) ==
    IF player_x > enemy_x THEN 1
    ELSE IF player_x < enemy_x THEN -1
    ELSE 0

step_toward_y(enemy_y, player_y) ==
    IF player_y > enemy_y THEN 1
    ELSE IF player_y < enemy_y THEN -1
    ELSE 0


\* mutant: the step is taken on one axis at a time, x first
chase_movement_one_axis(e, player_pos) ==
    LET dx == step_toward_x(e.pos.x, player_pos.x)
        dy == IF dx = 0 THEN step_toward_y(e.pos.y, player_pos.y) ELSE 0
    IN [x |-> e.pos.x + dx, y |-> e.pos.y + dy]

chase_movement(e, player_pos) ==
    LET dx == step_toward_x(e.pos.x, player_pos.x)
        dy == step_toward_y(e.pos.y, player_pos.y)
    IN [x |-> e.pos.x + dx, y |-> e.pos.y + dy]

\* mutant: the step is not negated
flee_movement_toward(e, player_pos) ==
    LET dx == step_toward_x(e.pos.x, player_pos.x)
        dy == step_toward_y(e.pos.y, player_pos.y)
    IN [x |-> e.pos.x + dx, y |-> e.pos.y + dy]

flee_movement(e, player_pos) ==
    LET dx == 0 - step_toward_x(e.pos.x, player_pos.x)
        dy == 0 - step_toward_y(e.pos.y, player_pos.y)
    IN [x |-> e.pos.x + dx, y |-> e.pos.y + dy]


\* mutant: the offsets 0 and 1 select the same step
wander_offset_no_return(offset) ==
    CASE offset = 0 -> <<1, 0>>
      [] offset = 1 -> <<1, 0>>
      [] offset = 2 -> <<0, 1>>
      [] OTHER -> <<0, -1>>

wander_offset(offset) ==
    CASE offset = 0 -> <<1, 0>>
      [] offset = 1 -> <<-1, 0>>
      [] offset = 2 -> <<0, 1>>
      [] OTHER -> <<0, -1>>

wander_movement(e) ==
    LET offset == i32_rem(e.pos.x + e.pos.y, 4)
        d == wander_offset(offset)
    IN [x |-> e.pos.x + d[1], y |-> e.pos.y + d[2]]

guard_position(e) == [x |-> e.pos.x, y |-> e.pos.y]

movement_by_behavior(e, player_pos) ==
    CASE e.current_behavior = "Chase" -> chase_movement(e, player_pos)
      [] e.current_behavior = "Flee" -> flee_movement(e, player_pos)
      [] e.current_behavior = "Wander" -> wander_movement(e)
      [] e.current_behavior \in {"Guard", "BossPattern"} -> guard_position(e)

\* mutant: an enemy at exactly the threshold counts as low
is_low_health_inclusive(e) ==
    LET health_percent == (e.health * 100) \div e.max_health
    IN health_percent <= FLEE_THRESHOLD

is_low_health(e) ==
    LET health_percent == (e.health * 100) \div e.max_health
    IN health_percent < FLEE_THRESHOLD

determine_behavior(e) ==
    IF is_low_health(e) /\ e.kind # "Boss"
    THEN "Flee"
    ELSE default_behavior(e.kind)

calculate_move(e, player_pos) == movement_by_behavior(e, player_pos)

update_behavior(e) == determine_behavior(e)

(***************************************************************************)
(* Inventory component, management (src/inventory/src/lib.rs).             *)
(***************************************************************************)
DEFAULT_MAX_CAPACITY == 20

create_default_inventory ==
    [equipped_weapon |-> 0, equipped_armor |-> 0, item_count |-> 0,
     max_capacity |-> DEFAULT_MAX_CAPACITY, gold |-> 0]

create_inventory == create_default_inventory

\* mutant: the capacity is not looked at
add_item_unchecked(inv, item_id) ==
    [inv EXCEPT !.item_count = inv.item_count + 1]

add_item(inv, item_id) ==
    IF inv.item_count >= inv.max_capacity
    THEN inv
    ELSE [inv EXCEPT !.item_count = inv.item_count + 1]

remove_item(inv, item_id) ==
    IF inv.item_count = 0
    THEN inv
    ELSE [inv EXCEPT !.item_count = inv.item_count - 1]

equip_weapon(inv, item_id) == [inv EXCEPT !.equipped_weapon = item_id]

equip_armor(inv, item_id) == [inv EXCEPT !.equipped_armor = item_id]

add_gold(inv, amount) == [inv EXCEPT !.gold = inv.gold + amount]

\* mutant: the whole balance cannot be spent
spend_gold_keeps_one(inv, amount) ==
    IF inv.gold <= amount
    THEN inv
    ELSE [inv EXCEPT !.gold = inv.gold - amount]

spend_gold(inv, amount) ==
    IF inv.gold < amount
    THEN inv
    ELSE [inv EXCEPT !.gold = inv.gold - amount]

is_full(inv) == inv.item_count >= inv.max_capacity

(***************************************************************************)
(* Inventory component, item usage (src/inventory/src/lib.rs).  A function *)
(* whose u32 subtraction can underflow yields the set of outcomes the      *)
(* builds produce: with overflow checks the call panics, without them the  *)
(* difference wraps modulo 2^32.                                           *)
(***************************************************************************)
\* the UseResult slot of a call that panicked: no value is returned
NoResult ==
    [success |-> FALSE, health_restored |-> U32(0), attack_boost |-> 0,
     defense_boost |-> 0, message |-> <<"(panic)">>]

Panicked == [panicked |-> TRUE, result |-> NoResult]

Returned(result) == [panicked |-> FALSE, result |-> result]

\* `a - b` on u32, for b - a <= 65536 when it underflows
u32_sub(a, b) ==
    IF a >= b
    THEN {[panic |-> FALSE, value |-> U32(a - b)]}
    ELSE {[panic |-> TRUE, value |-> U32(0)],
          [panic |-> FALSE, value |-> [hi |-> 65535, lo |-> 65536 - (b - a)]]}

\* mutant: the healed health is not capped at max
inventory_calculate_healed_health_uncapped(current, heal_amount, max) == current + heal_amount

inventory_calculate_healed_health(current, heal_amount, max) == Min(current + heal_amount, max)

calculate_health_restored(current, heal_amount, max) ==
    LET new_health == inventory_calculate_healed_health(current, heal_amount, max)
    IN u32_sub(new_health, current)

create_heal_result(restored) ==
    [success |-> TRUE, health_restored |-> restored, attack_boost |-> 0,
     defense_boost |-> 0, message |-> <<"Restored {} health!", restored>>]

create_attack_boost_result(boost) ==
    [success |-> TRUE, health_restored |-> U32(0), attack_boost |-> boost,
     defense_boost |-> 0, message |-> <<"Attack increased by {}!", boost>>]

create_defense_boost_result(boost) ==
    [success |-> TRUE, health_restored |-> U32(0), attack_boost |-> 0,
     defense_boost |-> boost, message |-> <<"Defense increased by {}!", boost>>]

create_antidote_result ==
    [success |-> TRUE, health_restored |-> U32(0), attack_boost |-> 0,
     defense_boost |-> 0, message |-> <<"Cured poison!">>]

create_unknown_item_result ==
    [success |-> FALSE, health_restored |-> U32(0), attack_boost |-> 0,
     defense_boost |-> 0, message |-> <<"Unknown item!">>]

use_health_potion(current, max, heal_amount) ==
    {IF r.panic THEN Panicked ELSE Returned(create_heal_result(r.value)) :
        r \in calculate_health_restored(current, heal_amount, max)}

use_item(item_id, current_health, max_health) ==
    CASE item_id = 201 -> use_health_potion(current_health, max_health, 50)
      [] item_id = 202 -> use_health_potion(current_health, max_health, max_health)
      [] item_id = 203 -> {Returned(create_attack_boost_result(5))}
      [] item_id = 204 -> {Returned(create_defense_boost_result(5))}
      [] item_id = 205 -> {Returned(create_antidote_result)}
      [] OTHER -> {Returned(create_unknown_item_result)}

(***************************************************************************)
(* Game engine (src/game_engine/src/lib.rs).  A function whose i32         *)
(* addition can overflow yields the set of outcomes the builds produce:    *)
(* with overflow checks the call panics, without them the sum wraps.       *)
(***************************************************************************)
I32_MAX == 2147483647

I32_MIN == -2147483647 - 1

GamePhase == {"Exploration", "Combat", "Dialogue", "Inventory", "GameOver"}

GameAction ==
    {"MoveNorth", "MoveSouth", "MoveEast", "MoveWest", "Attack", "UseItem",
     "OpenInventory", "Interact", "Wait", "Quit"}

\* `a + b` on i32
i32_add(a, b) ==
    IF b > 0 /\ a > I32_MAX - b
    THEN {[panic |-> TRUE, value |-> 0],
          [panic |-> FALSE, value |-> I32_MIN + (a - (I32_MAX - b) - 1)]}
    ELSE IF b < 0 /\ a < I32_MIN - b
    THEN {[panic |-> TRUE, value |-> 0],
          [panic |-> FALSE, value |-> I32_MAX - ((I32_MIN - b) - a - 1)]}
    ELSE {[panic |-> FALSE, value |-> a + b]}

new_game_impl ==
    [phase |-> "Exploration", player_x |-> 50, player_y |-> 50,
     player_health |-> 100, player_max_health |-> 100, player_attack |-> 10,
     player_defense |-> 5, player_level |-> 1, player_exp |-> 0,
     enemies_defeated |-> 0, boss_defeated |-> FALSE,
     current_area |-> "Hyrule Field", turn_number |-> 1]

is_in_bounds(x, y) == x \in 0..99 /\ y \in 0..99

validate_state_impl(state) ==
    LET health_valid == state.player_health <= state.player_max_health
        position_valid == is_in_bounds(state.player_x, state.player_y)
    IN health_valid /\ position_valid

clamp_coord(val) == Max(0, Min(val, 99))

\* the ActionResult slot of a call that panicked: no value is returned
NoActionResult ==
    [success |-> FALSE, message |-> <<"(panic)">>, new_phase |-> "GameOver",
     game_continues |-> FALSE]

ActionPanicked == [panicked |-> TRUE, result |-> NoActionResult]

ActionReturned(result) == [panicked |-> FALSE, result |-> result]

success_result(msg, phase) ==
    [success |-> TRUE, message |-> msg, new_phase |-> phase, game_continues |-> TRUE]

game_over_result(msg) ==
    [success |-> TRUE, message |-> msg, new_phase |-> "GameOver",
     game_continues |-> FALSE]

\* mutant: a move reports the phase the state is in
process_move_keeps_phase(state, dx, dy, dir_name) ==
    {ActionReturned(success_result(<<"You move {}.", dir_name>>, state.phase))}

process_move(state, dx, dy, dir_name) ==
    {IF new_x.panic \/ new_y.panic
     THEN ActionPanicked
     ELSE LET clamped_x == clamp_coord(new_x.value)
              clamped_y == clamp_coord(new_y.value)
              msg == <<"You move {}.", dir_name>>
          IN ActionReturned(success_result(msg, "Exploration")) :
        new_x \in i32_add(state.player_x, dx), new_y \in i32_add(state.player_y, dy)}

process_attack(state) == success_result(<<"You swing your sword!">>, "Combat")

process_use_item(state) == success_result(<<"You use an item.">>, "Exploration")

process_interact(state) ==
    success_result(<<"You interact with the environment.">>, "Dialogue")

process_inventory == success_result(<<"Opening inventory...">>, "Inventory")

process_wait == success_result(<<"You wait...">>, "Exploration")

process_quit == game_over_result(<<"Thanks for playing!">>)

process_action_impl(state, action) ==
    CASE action = "MoveNorth" -> process_move(state, 0, -1, "north")
      [] action = "MoveSouth" -> process_move(state, 0, 1, "south")
      [] action = "MoveEast" -> process_move(state, 1, 0, "east")
      [] action = "MoveWest" -> process_move(state, -1, 0, "west")
      [] action = "Attack" -> {ActionReturned(process_attack(state))}
      [] action = "UseItem" -> {ActionReturned(process_use_item(state))}
      [] action = "OpenInventory" -> {ActionReturned(process_inventory)}
      [] action = "Interact" -> {ActionReturned(process_interact(state))}
      [] action = "Wait" -> {ActionReturned(process_wait)}
      [] action = "Quit" -> {ActionReturned(process_quit)}

process_action(state, action) == process_action_impl(state, action)

is_water(x, y) == x \in 20..29 /\ y \in 40..59

is_forest(x, y) == x \in 60..79 /\ y \in 10..29

is_dungeon(x, y) == (x = 75 /\ y = 75) \/ (x = 25 /\ y = 25)

is_wall(x, y) == x = 0 \/ x = 99 \/ y = 0 \/ y = 99

\* mutant: coordinates outside the world grid are walls
get_tile_impl_bounded(x, y) ==
    IF ~is_in_bounds(x, y) \/ is_wall(x, y) THEN "Wall"
    ELSE IF is_water(x, y) THEN "Water"
    ELSE IF is_forest(x, y) THEN "Forest"
    ELSE IF is_dungeon(x, y) THEN "DungeonEntrance"
    ELSE "Grass"

get_tile_impl(x, y) ==
    IF is_wall(x, y) THEN "Wall"
    ELSE IF is_water(x, y) THEN "Water"
    ELSE IF is_forest(x, y) THEN "Forest"
    ELSE IF is_dungeon(x, y) THEN "DungeonEntrance"
    ELSE "Grass"

is_walkable_impl(x, y) ==
    LET tile == get_tile_impl(x, y)
    IN tile \notin {"Wall", "Water"}

get_tile(x, y) == get_tile_impl(x, y)

is_walkable(x, y) == is_walkable_impl(x, y)

(***************************************************************************)
(* Command driver (src/command/src/main.rs): the SimpleGameState of the   *)
(* command-line game and the functions its loop applies to it.  Vectors    *)
(* are sequences, an Option<usize> is an index from 1 or 0 for None, and   *)
(* the message field, which is only printed, is left out.  The terrain is  *)
(* never written after new(); it is the value of generate_terrain.         *)
(***************************************************************************)
MAP_WIDTH == 20

MAP_HEIGHT == 15

Direction == {"North", "South", "East", "West"}

Command ==
    {<<"Move", dir>> : dir \in Direction}
        \cup {<<"Attack">>, <<"Interact">>, <<"UseItem">>, <<"Inventory">>,
              <<"Status">>, <<"Help">>, <<"Quit">>, <<"Wait">>, <<"Unknown">>}

Tile == {"Grass", "Tree", "Water", "Mountain", "Wall"}

create_slime(x, y) ==
    [kind |-> "Slime", x |-> x, y |-> y, health |-> 10, attack |-> 3, exp |-> 5]

create_skeleton(x, y) ==
    [kind |-> "Skeleton", x |-> x, y |-> y, health |-> 20, attack |-> 5, exp |-> 10]

create_bat(x, y) ==
    [kind |-> "Bat", x |-> x, y |-> y, health |-> 8, attack |-> 4, exp |-> 7]

create_goblin(x, y) ==
    [kind |-> "Goblin", x |-> x, y |-> y, health |-> 25, attack |-> 8, exp |-> 15]

create_dark_knight(x, y) ==
    [kind |-> "DarkKnight", x |-> x, y |-> y, health |-> 40, attack |-> 12, exp |-> 25]

create_boss(x, y) ==
    [kind |-> "Boss", x |-> x, y |-> y, health |-> 100, attack |-> 20, exp |-> 100]

init_terrain == [y \in 0..(MAP_HEIGHT - 1) |-> [x \in 0..(MAP_WIDTH - 1) |-> "Grass"]]

\* the tiles of the list are set to the given kind
place(terrain, tiles, kind) ==
    [y \in DOMAIN terrain |->
        [x \in DOMAIN terrain[y] |->
            IF <<x, y>> \in tiles THEN kind ELSE terrain[y][x]]]

place_trees(terrain) ==
    place(terrain,
          {<<3, 2>>, <<4, 2>>, <<5, 7>>, <<6, 7>>, <<7, 7>>, <<15, 3>>,
           <<16, 3>>, <<17, 3>>, <<2, 10>>, <<3, 10>>, <<12, 12>>,
           <<13, 12>>, <<14, 12>>, <<8, 4>>, <<9, 4>>},
          "Tree")

place_water(terrain) ==
    place(terrain,
          {<<10, 6>>, <<11, 6>>, <<12, 6>>, <<10, 7>>, <<11, 7>>, <<12, 7>>,
           <<10, 8>>, <<11, 8>>, <<12, 8>>},
          "Water")

place_mountains(terrain) ==
    place(terrain,
          {<<0, 0>>, <<1, 0>>, <<2, 0>>, <<18, 0>>, <<19, 0>>, <<0, 14>>,
           <<1, 14>>, <<18, 14>>, <<19, 14>>},
          "Mountain")

place_walls(terrain) ==
    place(terrain,
          {<<5, 10>>, <<6, 10>>, <<7, 10>>, <<5, 11>>, <<7, 11>>, <<5, 12>>,
           <<6, 12>>, <<7, 12>>},
          "Wall")

generate_terrain ==
    place_walls(place_mountains(place_water(place_trees(init_terrain))))

spawn_enemies ==
    <<create_slime(5, 3), create_slime(14, 5), create_bat(8, 9),
      create_skeleton(16, 10), create_goblin(3, 12),
      create_dark_knight(17, 13), create_boss(10, 2)>>

spawn_items ==
    <<[kind |-> "Potion", x |-> 2, y |-> 5],
      [kind |-> "Potion", x |-> 15, y |-> 8],
      [kind |-> "Gold", x |-> 8, y |-> 3],
      [kind |-> "Gold", x |-> 12, y |-> 11],
      [kind |-> "Chest", x |-> 6, y |-> 11],
      [kind |-> "Sword", x |-> 18, y |-> 7]>>

\* SimpleGameState::new
SimpleGameState_new ==
    [player_x |-> 10, player_y |-> 10, health |-> 100, max_health |-> 100,
     score |-> 0, attack |-> 15, defense |-> 5, exp |-> 0, level |-> 1,
     gold |-> 0, potions |-> 1, is_running |-> TRUE,
     enemies |-> spawn_enemies, items |-> spawn_items, turn |-> 0]

\* the terrain field of every SimpleGameState
terrain_of(state) == generate_terrain

\* mutant: the tile kind is not looked at
cli_is_walkable_any_tile(terrain, x, y) ==
    (0 <= x /\ x < MAP_WIDTH) /\ (0 <= y /\ y < MAP_HEIGHT)

\* is_walkable of the command driver
cli_is_walkable(terrain, x, y) ==
    IF ~(0 <= x /\ x < MAP_WIDTH) \/ ~(0 <= y /\ y < MAP_HEIGHT)
    THEN FALSE
    ELSE LET tile == terrain[y][x]
         IN tile = "Grass"

apply_north(state) ==
    LET new_y == state.player_y - 1
    IN IF cli_is_walkable(terrain_of(state), state.player_x, new_y)
       THEN [state EXCEPT !.player_y = new_y]
       ELSE state

apply_south(state) ==
    LET new_y == state.player_y + 1
    IN IF cli_is_walkable(terrain_of(state), state.player_x, new_y)
       THEN [state EXCEPT !.player_y = new_y]
       ELSE state

apply_east(state) ==
    LET new_x == state.player_x + 1
    IN IF cli_is_walkable(terrain_of(state), new_x, state.player_y)
       THEN [state EXCEPT !.player_x = new_x]
       ELSE state

apply_west(state) ==
    LET new_x == state.player_x - 1
    IN IF cli_is_walkable(terrain_of(state), new_x, state.player_y)
       THEN [state EXCEPT !.player_x = new_x]
       ELSE state

apply_move(state, dir) ==
    CASE dir = "North" -> apply_north(state)
      [] dir = "South" -> apply_south(state)
      [] dir = "East" -> apply_east(state)
      [] dir = "West" -> apply_west(state)

\* Vec::remove
vec_remove(v, idx) ==
    [i \in 1..(Len(v) - 1) |-> IF i < idx THEN v[i] ELSE v[i + 1]]

\* Iterator::position over the enemies: the first index that matches, 0 for None
find_enemy_at(enemies, x, y) ==
    LET hits == {i \in 1..Len(enemies) : enemies[i].x = x /\ enemies[i].y = y}
    IN IF hits = {} THEN 0 ELSE CHOOSE i \in hits : \A j \in hits : i <= j

find_adjacent_enemy(state) ==
    LET dirs == <<<<0, -1>>, <<0, 1>>, <<-1, 0>>, <<1, 0>>>>
        at(k) == find_enemy_at(state.enemies,
                               state.player_x + dirs[k][1],
                               state.player_y + dirs[k][2])
        found == {k \in 1..4 : at(k) # 0}
    IN IF found = {} THEN 0
       ELSE at(CHOOSE k \in found : \A j \in found : k <= j)

\* attack is never negative here, so `/` is \div
calc_damage(attack) == attack + (attack \div 4)

\* check_level_up applied until the experience no longer pays for a level,
\* as the while loop of the player component's gain_experience does
RECURSIVE check_level_up_repeated(_)
check_level_up_repeated(state) ==
    LET exp_needed == state.level * 25
    IN IF state.exp >= exp_needed
       THEN check_level_up_repeated(
                [state EXCEPT !.level = state.level + 1,
                              !.exp = state.exp - exp_needed,
                              !.max_health = state.max_health + 10,
                              !.health = state.max_health + 10,
                              !.attack = state.attack + 3,
                              !.defense = state.defense + 2])
       ELSE state

check_level_up(state) ==
    LET exp_needed == state.level * 25
    IN IF state.exp >= exp_needed
       THEN [state EXCEPT !.level = state.level + 1,
                          !.exp = state.exp - exp_needed,
                          !.max_health = state.max_health + 10,
                          !.health = state.max_health + 10,
                          !.attack = state.attack + 3,
                          !.defense = state.defense + 2]
       ELSE state

defeat_enemy(state, idx) ==
    LET e == state.enemies[idx]
    IN check_level_up([state EXCEPT !.enemies = vec_remove(state.enemies, idx),
                                    !.exp = state.exp + e.exp,
                                    !.score = state.score + e.exp * 10])

apply_attack(state) ==
    LET idx == find_adjacent_enemy(state)
    IN IF idx # 0
       THEN LET damage == calc_damage(state.attack)
                hit == [state EXCEPT !.enemies[idx].health =
                                         state.enemies[idx].health - damage]
            IN IF hit.enemies[idx].health <= 0
               THEN defeat_enemy(hit, idx)
               ELSE hit
       ELSE state

\* mutant: the potion count is not lowered
use_potion_keeps_count(state) ==
    IF state.potions > 0
    THEN [state EXCEPT !.health = Min(state.health + 30, state.max_health)]
    ELSE state

use_potion(state) ==
    IF state.potions > 0
    THEN LET heal_amount == 30
         IN [state EXCEPT !.potions = state.potions - 1,
                          !.health = Min(state.health + heal_amount,
                                         state.max_health)]
    ELSE state

apply_item_effect(state, item) ==
    CASE item.kind = "Potion" ->
            [state EXCEPT !.potions = state.potions + 1]
      [] item.kind = "Gold" ->
            [state EXCEPT !.gold = state.gold + 25,
                          !.score = state.score + 50]
      [] item.kind = "Chest" ->
            [state EXCEPT !.gold = state.gold + 100,
                          !.score = state.score + 200]
      [] item.kind = "Sword" ->
            [state EXCEPT !.attack = state.attack + 10]

collect_item(state) ==
    LET x == state.player_x
        y == state.player_y
        hits == {i \in 1..Len(state.items) :
                    state.items[i].x = x /\ state.items[i].y = y}
    IN IF hits # {}
       THEN LET idx == CHOOSE i \in hits : \A j \in hits : i <= j
                item == state.items[idx]
            IN apply_item_effect(
                   [state EXCEPT !.items = vec_remove(state.items, idx)], item)
       ELSE state

\* i32::signum
signum(n) == IF n > 0 THEN 1 ELSE IF n < 0 THEN -1 ELSE 0

\* i32::abs, of coordinates of the map
i32_abs(n) == IF n < 0 THEN 0 - n ELSE n

is_position_occupied(state, x, y, skip) ==
    IF \E i \in 1..Len(state.enemies) :
           i # skip /\ state.enemies[i].x = x /\ state.enemies[i].y = y
    THEN TRUE
    ELSE x = state.player_x /\ y = state.player_y

move_single_enemy(state, idx) ==
    LET e == state.enemies[idx]
        dx == signum(state.player_x - e.x)
        dy == signum(state.player_y - e.y)
        new_x == e.x + dx
        new_y == e.y + dy
        walkable == cli_is_walkable(terrain_of(state), new_x, new_y)
        occupied == is_position_occupied(state, new_x, new_y, idx)
    IN IF walkable /\ ~occupied
       THEN [state EXCEPT !.enemies[idx].x = new_x, !.enemies[idx].y = new_y]
       ELSE state

\* the iterations i, i + 1, ... of the loop of move_enemies
RECURSIVE move_enemies_from(_, _)
move_enemies_from(state, i) ==
    IF i > Len(state.enemies)
    THEN state
    ELSE move_enemies_from(move_single_enemy(state, i), i + 1)

move_enemies(state) == move_enemies_from(state, 1)

is_adjacent(x1, y1, x2, y2) ==
    LET dx == i32_abs(x1 - x2)
        dy == i32_abs(y1 - y2)
    IN (dx = 1 /\ dy = 0) \/ (dx = 0 /\ dy = 1)

\* the iterations i, i + 1, ... of the loop of enemy_attacks
RECURSIVE enemy_attacks_from(_, _)
enemy_attacks_from(state, i) ==
    IF i > Len(state.enemies)
    THEN state
    ELSE LET e == state.enemies[i]
         IN IF is_adjacent(e.x, e.y, state.player_x, state.player_y)
            THEN LET damage == Max(e.attack - state.defense, 1)
                 IN enemy_attacks_from(
                        [state EXCEPT !.health = state.health - damage], i + 1)
            ELSE enemy_attacks_from(state, i + 1)

enemy_attacks(state) == enemy_attacks_from(state, 1)


\* mutant: a victory leaves is_running set
end_turn_keeps_running(state) ==
    LET turned == [state EXCEPT !.turn = state.turn + 1]
        attacked == enemy_attacks(move_enemies(collect_item(turned)))
        won == IF attacked.enemies = <<>>
               THEN [attacked EXCEPT !.score = attacked.score + 500]
               ELSE attacked
    IN IF won.health <= 0
       THEN [won EXCEPT !.is_running = FALSE]
       ELSE won

end_turn(state) ==
    LET turned == [state EXCEPT !.turn = state.turn + 1]
        attacked == enemy_attacks(move_enemies(collect_item(turned)))
        won == IF attacked.enemies = <<>>
               THEN [attacked EXCEPT !.score = attacked.score + 500,
                                     !.is_running = FALSE]
               ELSE attacked
    IN IF won.health <= 0
       THEN [won EXCEPT !.is_running = FALSE]
       ELSE won

process_command(state, cmd) ==
    CASE cmd[1] = "Move" -> end_turn(apply_move(state, cmd[2]))
      [] cmd[1] = "Attack" -> end_turn(apply_attack(state))
      [] cmd[1] = "UseItem" -> end_turn(use_potion(state))
      [] cmd[1] = "Wait" -> end_turn(state)
      [] cmd[1] = "Quit" -> [state EXCEPT !.is_running = FALSE]
      [] OTHER -> state

execute_command(state, cmd) ==
    CASE cmd[1] \in {"Help", "Inventory", "Status", "Unknown"} -> state
      [] cmd[1] = "Interact" -> end_turn(state)
      [] OTHER -> process_command(state, cmd)

(***************************************************************************)
(* The values a component's variable holds while another component's       *)
(* specification runs.                                                     *)
(***************************************************************************)
Idle == "idle"

NoStruct == "none"

Call(name, args, before) == [name |-> name, args |-> args, before |-> before]

(***************************************************************************)
(* SpecDamage: calculate_final_damage applied to every attack kind and     *)
(* every pair of stat sets within the bounds.                              *)
(***************************************************************************)
Attackers ==
    [attack : 0..MaxAttack, defense : {0, MaxDefense}, health : {50},
     max_health : {100}, equipment_bonus : 0..MaxEquip]

Defenders ==
    [attack : {0, 7}, defense : 0..MaxDefense, health : {50},
     max_health : {100}, equipment_bonus : {0}]

DamageInput(attack, attacker, defender) ==
    [attack |-> attack, attacker |-> attacker, defender |-> defender,
     done |-> FALSE, result |-> 0]

InitDamage ==
    /\ \E attack \in AttackType, attacker \in Attackers, defender \in Defenders :
          dmg = DamageInput(attack, attacker, defender)
    /\ op = Call("input", <<>>, NoStruct)
    /\ player = Idle /\ expq = Idle /\ enemy = Idle /\ battle = Idle
    /\ inventory = Idle /\ used = Idle /\ healq = Idle /\ ai = Idle
    /\ steps = Idle /\ engine = Idle /\ game = Idle

CalculateFinalDamage ==
    /\ ~dmg.done
    /\ dmg' = [dmg EXCEPT !.done = TRUE,
                          !.result = calculate_final_damage(dmg.attack, dmg.attacker,
                                                            dmg.defender)]
    /\ op' = Call("calculate_final_damage", <<>>, NoStruct)
    /\ UNCHANGED <<player, expq, enemy, battle, inventory, used, healq, ai, steps, engine, game>>

NextDamage == CalculateFinalDamage

SpecDamage == InitDamage /\ [][NextDamage]_vars

(***************************************************************************)
(* SpecPlayer: a PlayerStats value from create_player, transformed by      *)
(* take_damage, heal and gain_experience.                                  *)
(***************************************************************************)
RawDamages == {30, MaxRaw}

HealAmounts == {0, 25, MaxHealAmount}

ExpGains == {0, 50, 100, 125, MaxGain}

InitPlayer ==
    /\ player = create_player
    /\ op = Call("create_player", <<>>, NoStruct)
    /\ dmg = Idle /\ expq = Idle /\ enemy = Idle /\ battle = Idle
    /\ inventory = Idle /\ used = Idle /\ healq = Idle /\ ai = Idle
    /\ steps = Idle /\ engine = Idle /\ game = Idle

CreatePlayer ==
    /\ player' = create_player
    /\ op' = Call("create_player", <<>>, NoStruct)
    /\ UNCHANGED <<dmg, expq, enemy, battle, inventory, used, healq, ai, steps, engine, game>>

PlayerTakeDamage(raw_damage) ==
    /\ player' = player_take_damage(player, raw_damage)
    /\ op' = Call("take_damage", <<raw_damage>>, player)
    /\ UNCHANGED <<dmg, expq, enemy, battle, inventory, used, healq, ai, steps, engine, game>>

Heal(amount) ==
    /\ player' = heal(player, amount)
    /\ op' = Call("heal", <<amount>>, player)
    /\ UNCHANGED <<dmg, expq, enemy, battle, inventory, used, healq, ai, steps, engine, game>>

GainExperience(exp) ==
    /\ player.experience + exp <= MaxExp
    /\ player' = gain_experience(player, exp)
    /\ op' = Call("gain_experience", <<exp>>, player)
    /\ UNCHANGED <<dmg, expq, enemy, battle, inventory, used, healq, ai, steps, engine, game>>

NextPlayer ==
    \/ CreatePlayer
    \/ \E raw_damage \in RawDamages : PlayerTakeDamage(raw_damage)
    \/ \E amount \in HealAmounts : Heal(amount)
    \/ \E exp \in ExpGains : GainExperience(exp)

SpecPlayer == InitPlayer /\ [][NextPlayer]_vars

(***************************************************************************)
(* SpecExp: exp_to_next_level queried for the levels 1..MaxLevel; the      *)
(* state keeps the last two queries.                                       *)
(***************************************************************************)
Levels == 1..MaxLevel

ExpQuery(level, prev) ==
    [level |-> level, required |-> exp_to_next_level(level),
     prev_level |-> prev.level, prev_required |-> prev.required]

InitExp ==
    /\ \E level \in Levels :
          expq = [level |-> level, required |-> exp_to_next_level(level),
                  prev_level |-> level, prev_required |-> exp_to_next_level(level)]
    /\ op = Call("exp_to_next_level", <<>>, NoStruct)
    /\ dmg = Idle /\ player = Idle /\ enemy = Idle /\ battle = Idle
    /\ inventory = Idle /\ used = Idle /\ healq = Idle /\ ai = Idle
    /\ steps = Idle /\ engine = Idle /\ game = Idle

ExpToNextLevel(level) ==
    /\ expq' = ExpQuery(level, expq)
    /\ op' = Call("exp_to_next_level", <<>>, NoStruct)
    /\ UNCHANGED <<dmg, player, enemy, battle, inventory, used, healq, ai, steps, engine, game>>

NextExp == \E level \in Levels : ExpToNextLevel(level)

SpecExp == InitExp /\ [][NextExp]_vars

(***************************************************************************)
(* SpecEnemy: an EnemyState from spawn_enemy, spawn_boss or                *)
(* get_base_stats, transformed by take_damage and queried by               *)
(* update_behavior.                                                        *)
(***************************************************************************)
SpawnPositions == [x : 0..MaxCoord, y : 0..MaxCoord]

EnemyRawDamages == {0, 1, 7, 25, MaxRaw}

SpawnEnemy(kind, pos) ==
    /\ enemy' = spawn_enemy(kind, pos)
    /\ op' = Call("spawn_enemy", <<kind, pos>>, NoStruct)
    /\ UNCHANGED <<dmg, player, expq, battle, inventory, used, healq, ai, steps, engine, game>>

SpawnBoss(pos) ==
    /\ enemy' = spawn_boss(pos)
    /\ op' = Call("spawn_boss", <<pos>>, NoStruct)
    /\ UNCHANGED <<dmg, player, expq, battle, inventory, used, healq, ai, steps, engine, game>>

GetBaseStats(kind) ==
    /\ enemy' = get_base_stats(kind)
    /\ op' = Call("get_base_stats", <<kind>>, NoStruct)
    /\ UNCHANGED <<dmg, player, expq, battle, inventory, used, healq, ai, steps, engine, game>>

EnemyTakeDamage(raw_damage) ==
    /\ enemy' = enemy_take_damage(enemy, raw_damage)
    /\ op' = Call("take_damage", <<raw_damage>>, enemy)
    /\ UNCHANGED <<dmg, player, expq, battle, inventory, used, healq, ai, steps, engine, game>>

UpdateBehavior ==
    /\ ai' = [behavior |-> update_behavior(enemy)]
    /\ op' = Call("update_behavior", <<>>, enemy)
    /\ UNCHANGED <<dmg, player, expq, enemy, battle, inventory, used, healq, steps, engine, game>>

InitEnemy ==
    /\ \/ \E kind \in EnemyKind, pos \in SpawnPositions :
             /\ enemy = spawn_enemy(kind, pos)
             /\ op = Call("spawn_enemy", <<kind, pos>>, NoStruct)
       \/ \E pos \in SpawnPositions :
             /\ enemy = spawn_boss(pos)
             /\ op = Call("spawn_boss", <<pos>>, NoStruct)
       \/ \E kind \in EnemyKind :
             /\ enemy = get_base_stats(kind)
             /\ op = Call("get_base_stats", <<kind>>, NoStruct)
    /\ dmg = Idle /\ player = Idle /\ expq = Idle /\ battle = Idle
    /\ inventory = Idle /\ used = Idle /\ healq = Idle /\ ai = Idle
    /\ steps = Idle /\ engine = Idle /\ game = Idle

NextEnemy ==
    \/ \E kind \in EnemyKind, pos \in SpawnPositions : SpawnEnemy(kind, pos)
    \/ \E pos \in SpawnPositions : SpawnBoss(pos)
    \/ \E kind \in EnemyKind : GetBaseStats(kind)
    \/ \E raw_damage \in EnemyRawDamages : EnemyTakeDamage(raw_damage)
    \/ UpdateBehavior

SpecEnemy == InitEnemy /\ [][NextEnemy]_vars

(***************************************************************************)
(* SpecBattle: a BattleState from start_battle, transformed by next_turn,  *)
(* update_health and end_battle.                                           *)
(***************************************************************************)
Healths == 0..MaxHp

InitBattle ==
    /\ \E player_health \in Healths, enemy_health \in Healths :
          /\ battle = start_battle(player_health, enemy_health)
          /\ op = Call("start_battle", <<player_health, enemy_health>>, NoStruct)
    /\ dmg = Idle /\ player = Idle /\ expq = Idle /\ enemy = Idle
    /\ inventory = Idle /\ used = Idle /\ healq = Idle /\ ai = Idle
    /\ steps = Idle /\ engine = Idle /\ game = Idle

StartBattle(player_health, enemy_health) ==
    /\ battle' = start_battle(player_health, enemy_health)
    /\ op' = Call("start_battle", <<player_health, enemy_health>>, NoStruct)
    /\ UNCHANGED <<dmg, player, expq, enemy, inventory, used, healq, ai, steps, engine, game>>

EndBattle ==
    /\ battle' = end_battle(battle)
    /\ op' = Call("end_battle", <<>>, battle)
    /\ UNCHANGED <<dmg, player, expq, enemy, inventory, used, healq, ai, steps, engine, game>>

NextTurn ==
    /\ battle.turn_count < MaxTurns
    /\ battle' = next_turn(battle)
    /\ op' = Call("next_turn", <<>>, battle)
    /\ UNCHANGED <<dmg, player, expq, enemy, inventory, used, healq, ai, steps, engine, game>>

UpdateHealth(player_health, enemy_health) ==
    /\ battle' = update_health(battle, player_health, enemy_health)
    /\ op' = Call("update_health", <<player_health, enemy_health>>, battle)
    /\ UNCHANGED <<dmg, player, expq, enemy, inventory, used, healq, ai, steps, engine, game>>

NextBattle ==
    \/ \E player_health \in Healths, enemy_health \in Healths :
          StartBattle(player_health, enemy_health)
    \/ EndBattle
    \/ NextTurn
    \/ \E player_health \in Healths, enemy_health \in Healths :
          UpdateHealth(player_health, enemy_health)

SpecBattle == InitBattle /\ [][NextBattle]_vars

(***************************************************************************)
(* SpecInventory: an InventoryState from create_inventory, transformed by  *)
(* add_item, remove_item, equip_weapon, equip_armor, add_gold and          *)
(* spend_gold.                                                             *)
(***************************************************************************)
ItemIds == {1, 201}

WeaponIds == {1, 3}

ArmorIds == {103}

GoldAmounts == {0, 1, 2, MaxGold}

InitInventory ==
    /\ inventory = create_inventory
    /\ op = Call("create_inventory", <<>>, NoStruct)
    /\ dmg = Idle /\ player = Idle /\ expq = Idle /\ enemy = Idle /\ battle = Idle
    /\ used = Idle /\ healq = Idle /\ ai = Idle
    /\ steps = Idle /\ engine = Idle /\ game = Idle

CreateInventory ==
    /\ inventory' = create_inventory
    /\ op' = Call("create_inventory", <<>>, NoStruct)
    /\ UNCHANGED <<dmg, player, expq, enemy, battle, used, healq, ai, steps, engine, game>>

AddItem(item_id) ==
    /\ inventory' = add_item(inventory, item_id)
    /\ op' = Call("add_item", <<item_id>>, inventory)
    /\ UNCHANGED <<dmg, player, expq, enemy, battle, used, healq, ai, steps, engine, game>>

RemoveItem(item_id) ==
    /\ inventory' = remove_item(inventory, item_id)
    /\ op' = Call("remove_item", <<item_id>>, inventory)
    /\ UNCHANGED <<dmg, player, expq, enemy, battle, used, healq, ai, steps, engine, game>>

EquipWeapon(item_id) ==
    /\ inventory' = equip_weapon(inventory, item_id)
    /\ op' = Call("equip_weapon", <<item_id>>, inventory)
    /\ UNCHANGED <<dmg, player, expq, enemy, battle, used, healq, ai, steps, engine, game>>

EquipArmor(item_id) ==
    /\ inventory' = equip_armor(inventory, item_id)
    /\ op' = Call("equip_armor", <<item_id>>, inventory)
    /\ UNCHANGED <<dmg, player, expq, enemy, battle, used, healq, ai, steps, engine, game>>

AddGold(amount) ==
    /\ inventory.gold + amount <= MaxGold
    /\ inventory' = add_gold(inventory, amount)
    /\ op' = Call("add_gold", <<amount>>, inventory)
    /\ UNCHANGED <<dmg, player, expq, enemy, battle, used, healq, ai, steps, engine, game>>

SpendGold(amount) ==
    /\ inventory' = spend_gold(inventory, amount)
    /\ op' = Call("spend_gold", <<amount>>, inventory)
    /\ UNCHANGED <<dmg, player, expq, enemy, battle, used, healq, ai, steps, engine, game>>

NextInventory ==
    \/ CreateInventory
    \/ \E item_id \in ItemIds : AddItem(item_id)
    \/ \E item_id \in ItemIds : RemoveItem(item_id)
    \/ \E item_id \in WeaponIds : EquipWeapon(item_id)
    \/ \E item_id \in ArmorIds : EquipArmor(item_id)
    \/ \E amount \in GoldAmounts : AddGold(amount)
    \/ \E amount \in GoldAmounts : SpendGold(amount)

SpecInventory == InitInventory /\ [][NextInventory]_vars

(***************************************************************************)
(* SpecUse: use_item applied to every item id and every pair of health     *)
(* values of the input sets, current_health > max_health included.         *)
(***************************************************************************)
UseItemIds == {0, 1, 101, 200, 201, 202, 203, 204, 205, 206, 999}

UseHealths == {0, 10, 50, 60, 100, MaxUseHealth}

UseInput(item_id, current_health, max_health) ==
    [item_id |-> item_id, current_health |-> current_health,
     max_health |-> max_health, done |-> FALSE, panicked |-> FALSE,
     result |-> NoResult]

InitUse ==
    /\ \E item_id \in UseItemIds, current_health \in UseHealths, max_health \in UseHealths :
          used = UseInput(item_id, current_health, max_health)
    /\ op = Call("input", <<>>, NoStruct)
    /\ dmg = Idle /\ player = Idle /\ expq = Idle /\ enemy = Idle /\ battle = Idle
    /\ inventory = Idle /\ healq = Idle /\ ai = Idle
    /\ steps = Idle /\ engine = Idle /\ game = Idle

UseItem ==
    /\ ~used.done
    /\ \E out \in use_item(used.item_id, used.current_health, used.max_health) :
          used' = [used EXCEPT !.done = TRUE, !.panicked = out.panicked,
                               !.result = out.result]
    /\ op' = Call("use_item", <<>>, NoStruct)
    /\ UNCHANGED <<dmg, player, expq, enemy, battle, inventory, healq, ai, steps, engine, game>>

NextUse == UseItem

SpecUse == InitUse /\ [][NextUse]_vars

(***************************************************************************)
(* SpecHeal: calculate_healed_health of the player and of the inventory    *)
(* component, applied again and again to its own result; the first value   *)
(* may lie above max.                                                      *)
(***************************************************************************)
HealImpls == {"player", "inventory"}

HealValues == 0..MaxHealValue

HealSteps == {0, 1, MaxHealValue}

calculate_healed_health(impl, current, amount, max) ==
    IF impl = "player"
    THEN player_calculate_healed_health(current, amount, max)
    ELSE inventory_calculate_healed_health(current, amount, max)

InitHeal ==
    /\ \E impl \in HealImpls, current \in HealValues, max \in HealValues :
          healq = [impl |-> impl, max |-> max, value |-> current]
    /\ op = Call("input", <<>>, NoStruct)
    /\ dmg = Idle /\ player = Idle /\ expq = Idle /\ enemy = Idle /\ battle = Idle
    /\ inventory = Idle /\ used = Idle /\ ai = Idle
    /\ steps = Idle /\ engine = Idle /\ game = Idle

CalculateHealedHealth(amount) ==
    /\ healq' = [healq EXCEPT
                   !.value = calculate_healed_health(healq.impl, healq.value, amount,
                                                     healq.max)]
    /\ op' = Call("calculate_healed_health", <<amount>>, healq)
    /\ UNCHANGED <<dmg, player, expq, enemy, battle, inventory, used, ai, steps, engine, game>>

NextHeal == \E amount \in HealSteps : CalculateHealedHealth(amount)

SpecHeal == InitHeal /\ [][NextHeal]_vars

(***************************************************************************)
(* SpecMove: calculate_move applied to an EnemyState with every behaviour   *)
(* and every pair of enemy and player positions of the input set, negative *)
(* coordinates included.                                                   *)
(***************************************************************************)
MovePositions ==
    [x : (0 - MaxMove)..MaxMove, y : (0 - MaxMove)..MaxMove]
        \cup {[x |-> 5, y |-> 5], [x |-> 5, y |-> 10]}

MoveEnemy(pos, behavior) ==
    [create_enemy_state("Slime", pos) EXCEPT !.current_behavior = behavior]

MoveInput(e, player_pos) ==
    [enemy |-> e, player_pos |-> player_pos, done |-> FALSE, result |-> e.pos]

InitMove ==
    /\ \E pos \in MovePositions, behavior \in Behavior, player_pos \in MovePositions :
          ai = MoveInput(MoveEnemy(pos, behavior), player_pos)
    /\ op = Call("input", <<>>, NoStruct)
    /\ dmg = Idle /\ player = Idle /\ expq = Idle /\ enemy = Idle /\ battle = Idle
    /\ inventory = Idle /\ used = Idle /\ healq = Idle
    /\ steps = Idle /\ engine = Idle /\ game = Idle

CalculateMove ==
    /\ ~ai.done
    /\ ai' = [ai EXCEPT !.done = TRUE,
                        !.result = calculate_move(ai.enemy, ai.player_pos)]
    /\ op' = Call("calculate_move", <<>>, NoStruct)
    /\ UNCHANGED <<dmg, player, expq, enemy, battle, inventory, used, healq, steps, engine, game>>

NextMove == CalculateMove

SpecMove == InitMove /\ [][NextMove]_vars

(***************************************************************************)
(* SpecAction: process_action applied to a GameState in every phase, at    *)
(* positions inside, on the border of and outside the world, the ends of   *)
(* the i32 range included, and to every action.                            *)
(***************************************************************************)
ActionCoords == {I32_MIN, -1, 0, 50, 99, 100, I32_MAX}

ActionInput(state, action) ==
    [state |-> state, action |-> action, done |-> FALSE, panicked |-> FALSE,
     result |-> NoActionResult]

InitAction ==
    /\ \E phase \in GamePhase, x \in ActionCoords, y \in ActionCoords, action \in GameAction :
          engine = ActionInput([new_game_impl EXCEPT !.phase = phase, !.player_x = x,
                                                     !.player_y = y], action)
    /\ op = Call("input", <<>>, NoStruct)
    /\ dmg = Idle /\ player = Idle /\ expq = Idle /\ enemy = Idle /\ battle = Idle
    /\ inventory = Idle /\ used = Idle /\ healq = Idle /\ ai = Idle
    /\ steps = Idle /\ game = Idle

ProcessAction ==
    /\ ~engine.done
    /\ \E out \in process_action(engine.state, engine.action) :
          engine' = [engine EXCEPT !.done = TRUE, !.panicked = out.panicked,
                                   !.result = out.result]
    /\ op' = Call("process_action", <<>>, NoStruct)
    /\ UNCHANGED <<dmg, player, expq, enemy, battle, inventory, used, healq, ai, steps, game>>

NextAction == ProcessAction

SpecAction == InitAction /\ [][NextAction]_vars

(***************************************************************************)
(* SpecWorld: the game-world queries get_tile and is_walkable applied to   *)
(* every coordinate pair of the world grid and of a margin around it.      *)
(***************************************************************************)
WorldCoords == (0 - MaxOutside)..(99 + MaxOutside)

WorldInput(x, y) ==
    [x |-> x, y |-> y, done |-> FALSE, tile |-> "Grass", walkable |-> FALSE]

InitWorld ==
    /\ \E x \in WorldCoords, y \in WorldCoords : engine = WorldInput(x, y)
    /\ op = Call("input", <<>>, NoStruct)
    /\ dmg = Idle /\ player = Idle /\ expq = Idle /\ enemy = Idle /\ battle = Idle
    /\ inventory = Idle /\ used = Idle /\ healq = Idle /\ ai = Idle
    /\ steps = Idle /\ game = Idle

QueryWorld ==
    /\ ~engine.done
    /\ engine' = [engine EXCEPT !.done = TRUE,
                                !.tile = get_tile(engine.x, engine.y),
                                !.walkable = is_walkable(engine.x, engine.y)]
    /\ op' = Call("is_walkable", <<>>, NoStruct)
    /\ UNCHANGED <<dmg, player, expq, enemy, battle, inventory, used, healq, ai, steps, game>>

NextWorld == QueryWorld

SpecWorld == InitWorld /\ [][NextWorld]_vars

(***************************************************************************)
(* SpecPursuit: a caller keeps an enemy in Chase or Wander behaviour and   *)
(* replaces its position by the result of calculate_move, step after step, *)
(* while the player stands still.                                          *)
(***************************************************************************)
PursuitPositions == [x : (0 - MaxPursuit)..MaxPursuit, y : (0 - MaxPursuit)..MaxPursuit]

InitPursuit ==
    /\ \E behavior \in {"Chase", "Wander"}, pos \in PursuitPositions,
          player_pos \in PursuitPositions :
          /\ enemy = MoveEnemy(pos, behavior)
          /\ steps = [count |-> 0, start |-> pos, player_pos |-> player_pos]
    /\ op = Call("input", <<>>, NoStruct)
    /\ dmg = Idle /\ player = Idle /\ expq = Idle /\ battle = Idle
    /\ inventory = Idle /\ used = Idle /\ healq = Idle /\ ai = Idle
    /\ engine = Idle /\ game = Idle

MoveStep ==
    /\ steps.count < MaxSteps
    /\ enemy' = [enemy EXCEPT !.pos = calculate_move(enemy, steps.player_pos)]
    /\ steps' = [steps EXCEPT !.count = steps.count + 1]
    /\ op' = Call("calculate_move", <<>>, enemy)
    /\ UNCHANGED <<dmg, player, expq, battle, inventory, used, healq, ai, engine, game>>

NextPursuit == MoveStep

SpecPursuit == InitPursuit /\ [][NextPursuit]_vars

(***************************************************************************)
(* SpecAttrition: a caller applies take_damage to a spawned enemy again    *)
(* and again and counts the calls.                                         *)
(***************************************************************************)
InitAttrition ==
    /\ \E kind \in EnemyKind, pos \in SpawnPositions :
          /\ enemy = spawn_enemy(kind, pos)
          /\ steps = [count |-> 0, start_health |-> base_health(kind)]
          /\ op = Call("spawn_enemy", <<kind, pos>>, NoStruct)
    /\ dmg = Idle /\ player = Idle /\ expq = Idle /\ battle = Idle
    /\ inventory = Idle /\ used = Idle /\ healq = Idle /\ ai = Idle
    /\ engine = Idle /\ game = Idle

TakeDamageAgain(raw_damage) ==
    /\ steps.count < MaxHits
    /\ enemy' = enemy_take_damage(enemy, raw_damage)
    /\ steps' = [steps EXCEPT !.count = steps.count + 1]
    /\ op' = Call("take_damage", <<raw_damage>>, enemy)
    /\ UNCHANGED <<dmg, player, expq, battle, inventory, used, healq, ai, engine, game>>

NextAttrition == \E raw_damage \in EnemyRawDamages : TakeDamageAgain(raw_damage)

SpecAttrition == InitAttrition /\ [][NextAttrition]_vars

(***************************************************************************)
(* SpecGame: run_game_loop of the command driver from                      *)
(* SimpleGameState::new().  One step is one iteration of the loop: a       *)
(* command is read and executed.  op holds the command and the state it    *)
(* was applied to; steps counts the commands read and the victory bonuses. *)
(***************************************************************************)
\* a play that defeats the Boss first and then every other enemy
WinningScript ==
    LET N == <<"Move", "North">>
        S == <<"Move", "South">>
        E == <<"Move", "East">>
        W == <<"Move", "West">>
        A == <<"Attack">>
    IN <<N, A, W, N, N, A, A, A, A, A, A, S, S, A, W, W, N, A, A, A, W, W,
         W, N, N, N, E, A, E, E, A>>

\* a walk to the southern edge of the map and against it
EdgeScript ==
    LET S == <<"Move", "South">>
    IN <<S, S, S, S, S>>

Scripts == <<WinningScript, EdgeScript>>

\* the input of the loop: a prefix of a script, then at most
\* MaxFreeCommands commands of any kind
InitGame ==
    /\ game = SimpleGameState_new
    /\ \E i \in DOMAIN Scripts :
          steps = [script |-> i, pos |-> 0, free |-> 0, bonuses |-> 0]
    /\ op = Call("new", <<>>, NoStruct)
    /\ dmg = Idle /\ player = Idle /\ expq = Idle /\ enemy = Idle /\ battle = Idle
    /\ inventory = Idle /\ used = Idle /\ healq = Idle /\ ai = Idle
    /\ engine = Idle

\* the loop condition of run_game_loop
loop_continues(state) == state.is_running /\ state.health > 0

\* the commands execute_command ends with end_turn
TurnCommands == {cmd \in Command : cmd[1] \in {"Move", "Attack", "UseItem", "Wait", "Interact"}}

\* 1 when end_turn adds the victory bonus during the command, else 0
bonus_added(state, cmd) ==
    IF cmd \in TurnCommands /\ execute_command(state, cmd).enemies = <<>>
    THEN 1
    ELSE 0

\* game_loop_iteration inside run_game_loop
GameLoopIteration(cmd, scripted) ==
    /\ loop_continues(game)
    /\ IF scripted
       THEN /\ steps.free = 0
            /\ steps.pos < Len(Scripts[steps.script])
            /\ cmd = Scripts[steps.script][steps.pos + 1]
       ELSE steps.free < MaxFreeCommands
    /\ game' = execute_command(game, cmd)
    /\ steps' = [steps EXCEPT !.pos = IF scripted THEN steps.pos + 1 ELSE steps.pos,
                              !.free = IF scripted THEN 0 ELSE steps.free + 1,
                              !.bonuses = steps.bonuses + bonus_added(game, cmd)]
    /\ op' = Call("execute_command", <<cmd>>, game)
    /\ UNCHANGED <<dmg, player, expq, enemy, battle, inventory, used, healq, ai, engine>>

NextGame == \E cmd \in Command, scripted \in BOOLEAN : GameLoopIteration(cmd, scripted)

SpecGame == InitGame /\ [][NextGame]_vars

(***************************************************************************)
(* Properties of the damage engine, checked under SpecDamage.              *)
(***************************************************************************)

\* C1: calculate_final_damage is the fixed algorithm: the base damage of the
\* attack kind (SwordSlash 10, SpinAttack 20, BowShot 8, MagicAttack 15,
\* ShieldBash 5) times 1 + (attack + equipment_bonus) div 10, less
\* defense div 2 with a floor of 1, doubled exactly when attack mod 10 = 7;
\* SwordSlash with attack 20 against defense 10 gives 25, with attack 27 gives 50.
C1_FinalDamageIsFixedAlgorithm ==
    dmg.done =>
      LET table == [SwordSlash |-> 10, SpinAttack |-> 20, BowShot |-> 8,
                    MagicAttack |-> 15, ShieldBash |-> 5]
          a == dmg.attacker
          d == dmg.defender
          raw == table[dmg.attack] * (1 + (a.attack + a.equipment_bonus) \div 10)
          less == raw - d.defense \div 2
          after_defense == IF less < 1 THEN 1 ELSE less
          plain == dmg.attack = "SwordSlash" /\ a.equipment_bonus = 0 /\ d.defense = 10
      IN /\ dmg.result = IF a.attack % 10 = 7 THEN 2 * after_defense ELSE after_defense
         /\ (plain /\ a.attack = 20) => dmg.result = 25
         /\ (plain /\ a.attack = 27) => dmg.result = 50

C1_Witness ==
    /\ dmg.done
    /\ dmg.attack = "SwordSlash"
    /\ dmg.attacker.attack = 27
    /\ dmg.attacker.equipment_bonus = 0
    /\ dmg.defender.defense = 10
    /\ dmg.result = 50

\* C2: for every attack kind and every pair of stat sets, also when the
\* defender's defense reduction exceeds the raw damage, the final damage is
\* at least 1.
C2_FinalDamageAtLeastOne == dmg.done => dmg.result >= 1

C2_Witness ==
    /\ dmg.done
    /\ dmg.defender.defense \div 2 > calculate_base_damage(dmg.attack, dmg.attacker)
    /\ dmg.result = 1

(***************************************************************************)
(* Properties of the leveling engine, checked under SpecPlayer (C3, C4)    *)
(* and SpecExp (C5).                                                       *)
(***************************************************************************)
GainCall == op.name = "gain_experience"

\* C3 as stated: gain_experience adds exp and then repeats the level-up step
\* for as long as experience >= exp_requirement(level), so that on return
\* experience < exp_requirement(level).
C3_RepeatsLevelUp ==
    GainCall =>
      LET new_exp == op.before.experience + op.args[1]
      IN /\ player = check_and_apply_level_up_while(
                         create_stats_with_exp(op.before, new_exp))
         /\ ~should_level_up(player.experience, player.level)

\* C3 amended: gain_experience adds exp and then applies the level-up step at
\* most once: the level rises by exactly 1 when the new experience is
\* >= exp_requirement(level) and stays otherwise.
C3_AtMostOneLevelUp ==
    GainCall =>
      LET new_exp == op.before.experience + op.args[1]
          required == exp_to_next_level(op.before.level)
      IN /\ player.experience = new_exp
         /\ player.level = IF U32Ge(U32(new_exp), required)
                           THEN op.before.level + 1
                           ELSE op.before.level

\* a call after which a level-up the experience pays for is still pending
C3_Witness ==
    /\ GainCall
    /\ player.level = op.before.level + 1
    /\ U32Ge(U32(player.experience), exp_to_next_level(player.level))

\* C4: a level-up step applied by gain_experience raises max_health by 20,
\* sets health to the new max_health, raises attack by 3, defense by 2 and
\* level by 1, and experience is the old experience plus exp; a call that
\* does not reach the threshold changes experience only.
C4_LevelUpStepEffects ==
    GainCall =>
      LET b == op.before
          new_exp == b.experience + op.args[1]
      IN /\ player.experience = new_exp
         /\ IF U32Ge(U32(new_exp), exp_to_next_level(b.level))
            THEN /\ player.max_health = b.max_health + 20
                 /\ player.health = player.max_health
                 /\ player.attack = b.attack + 3
                 /\ player.defense = b.defense + 2
                 /\ player.level = b.level + 1
            ELSE player = [b EXCEPT !.experience = new_exp]

\* a level-up of a wounded player that had experience before the call
C4_Witness ==
    /\ GainCall
    /\ player.level = op.before.level + 1
    /\ op.before.health < op.before.max_health
    /\ op.before.experience > 0
    /\ player.health = player.max_health
    /\ player.experience = op.before.experience + op.args[1]

Successive == expq.level = expq.prev_level + 1

EnemyDamageCall == op.name = "take_damage"

\* C6: in every EnemyState reachable from spawn_enemy, spawn_boss or
\* get_base_stats by take_damage calls, is_alive holds exactly when
\* health > 0; a freshly spawned enemy has health = max_health = the base
\* health of its kind and is alive.
C6_AliveIffHealthPositive ==
    LET table == [Slime |-> 30, Skeleton |-> 50, Bat |-> 20, Goblin |-> 40,
                  DarkKnight |-> 80, Boss |-> 200]
    IN /\ enemy.is_alive <=> enemy.health > 0
       /\ op.name \in {"spawn_enemy", "spawn_boss", "get_base_stats"} =>
             /\ enemy.health = table[enemy.kind]
             /\ enemy.max_health = table[enemy.kind]
             /\ enemy.is_alive

\* an enemy that a take_damage call brought to health 0
C6_Witness ==
    /\ EnemyDamageCall
    /\ op.before.is_alive
    /\ enemy.health = 0
    /\ ~enemy.is_alive

\* C7: take_damage with raw_damage >= health + defense div 2 returns an enemy
\* with health = 0 and is_alive = false.
C7_LethalDamageDefeats ==
    (EnemyDamageCall /\ op.args[1] >= op.before.health + op.before.defense \div 2) =>
        (enemy.health = 0 /\ ~enemy.is_alive)

\* the boundary: raw_damage is exactly health + defense div 2 of a living enemy
C7_Witness ==
    /\ EnemyDamageCall
    /\ op.before.health > 0
    /\ op.before.defense \div 2 > 0
    /\ op.args[1] = op.before.health + op.before.defense \div 2
    /\ enemy.health = 0
    /\ ~enemy.is_alive

(***************************************************************************)
(* Properties of the battle state machine, checked under SpecBattle.       *)
(***************************************************************************)
TurnCall == op.name = "next_turn"

HealthCall == op.name = "update_health"

EndCall == op.name = "end_battle"

\* C8 as stated: next_turn and update_health applied to an inactive
\* BattleState leave turn_count, is_player_turn, player_health and
\* enemy_health unchanged.
C8_InactiveBattleUnchanged ==
    ((TurnCall \/ HealthCall) /\ ~op.before.is_active) =>
        /\ battle.turn_count = op.before.turn_count
        /\ battle.is_player_turn = op.before.is_player_turn
        /\ battle.player_health = op.before.player_health
        /\ battle.enemy_health = op.before.enemy_health

\* C8 amended: next_turn and update_health applied to an inactive BattleState
\* leave is_active false, but they are not guarded: next_turn still adds 1 to
\* turn_count and flips is_player_turn, update_health still overwrites both
\* health fields.
C8_InactiveBattleStaysInactive ==
    /\ (TurnCall /\ ~op.before.is_active) =>
          battle = [is_active |-> FALSE,
                    turn_count |-> op.before.turn_count + 1,
                    player_health |-> op.before.player_health,
                    enemy_health |-> op.before.enemy_health,
                    is_player_turn |-> ~op.before.is_player_turn]
    /\ (HealthCall /\ ~op.before.is_active) =>
          battle = [is_active |-> FALSE,
                    turn_count |-> op.before.turn_count,
                    player_health |-> op.args[1],
                    enemy_health |-> op.args[2],
                    is_player_turn |-> op.before.is_player_turn]

\* next_turn applied to an ended battle
C8_Witness ==
    /\ TurnCall
    /\ ~op.before.is_active
    /\ ~battle.is_active
    /\ battle.turn_count = op.before.turn_count + 1

ZeroHealth(state) == state.player_health = 0 \/ state.enemy_health = 0

\* C9 as stated: once player_health = 0 or enemy_health = 0, is_battle_over
\* is true in that state and in every state that next_turn and update_health
\* lead to.
C9_OverOnceHealthZero ==
    /\ ZeroHealth(battle) => is_battle_over(battle)
    /\ ((TurnCall \/ HealthCall) /\ ZeroHealth(op.before)) => is_battle_over(battle)

\* C9 amended: is_battle_over is true in every state in which player_health
\* = 0 or enemy_health = 0, and next_turn keeps it true; update_health
\* overwrites both health fields, so after it an active battle is over
\* exactly when one of the new health values is 0.
C9_OverWhileHealthZero ==
    /\ ZeroHealth(battle) => is_battle_over(battle)
    /\ (TurnCall /\ is_battle_over(op.before)) => is_battle_over(battle)
    /\ (HealthCall /\ op.before.is_active) =>
          (is_battle_over(battle) <=> (op.args[1] = 0 \/ op.args[2] = 0))

\* update_health brings an active battle with a combatant at 0 back from over
C9_Witness ==
    /\ HealthCall
    /\ op.before.is_active
    /\ ZeroHealth(op.before)
    /\ ~is_battle_over(battle)

\* C10: after end_battle, every state reached by next_turn, update_health and
\* end_battle has is_active = false and is_battle_over = true; only
\* start_battle produces an active battle.
C10_EndBattleAbsorbing ==
    /\ EndCall => (~battle.is_active /\ is_battle_over(battle))
    /\ ((TurnCall \/ HealthCall \/ EndCall) /\ ~op.before.is_active) =>
          (~battle.is_active /\ is_battle_over(battle))
    /\ (battle.is_active /\ op.name # "start_battle") => op.before.is_active

\* update_health with two positive health values applied to an ended battle
C10_Witness ==
    /\ HealthCall
    /\ ~op.before.is_active
    /\ op.args[1] > 0
    /\ op.args[2] > 0
    /\ ~battle.is_active
    /\ is_battle_over(battle)

StartCall == op.name = "start_battle"

\* C11: start_battle(p, e) yields is_active = true, turn_count = 0,
\* is_player_turn = true, player_health = p, enemy_health = e; each next_turn
\* adds exactly 1 to turn_count and flips is_player_turn while leaving
\* is_active and both health fields unchanged; in every state reachable from
\* start_battle by next_turn, update_health and end_battle, is_player_turn
\* holds exactly when turn_count is even.
C11_TurnParity ==
    /\ StartCall =>
          battle = [is_active |-> TRUE, turn_count |-> 0,
                    player_health |-> op.args[1], enemy_health |-> op.args[2],
                    is_player_turn |-> TRUE]
    /\ TurnCall =>
          battle = [is_active |-> op.before.is_active,
                    turn_count |-> op.before.turn_count + 1,
                    player_health |-> op.before.player_health,
                    enemy_health |-> op.before.enemy_health,
                    is_player_turn |-> ~op.before.is_player_turn]
    /\ battle.is_player_turn <=> battle.turn_count % 2 = 0

\* the third next_turn of an active battle hands the turn to the enemy
C11_Witness ==
    /\ TurnCall
    /\ op.before.is_active
    /\ op.before.is_player_turn
    /\ battle.turn_count = 3
    /\ ~battle.is_player_turn

(***************************************************************************)
(* Properties of the inventory, checked under SpecInventory.               *)
(***************************************************************************)

\* C12: in every InventoryState reachable from create_inventory through
\* add_item, remove_item, equip_weapon, equip_armor, add_gold and spend_gold,
\* 0 <= item_count <= max_capacity; add_item on an inventory with item_count
\* = max_capacity and remove_item on an inventory with item_count = 0 return
\* the inventory unchanged.
C12_ItemCountWithinCapacity ==
    /\ 0 <= inventory.item_count
    /\ inventory.item_count <= inventory.max_capacity
    /\ (op.name = "add_item" /\ op.before.item_count = op.before.max_capacity) =>
          inventory = op.before
    /\ (op.name = "remove_item" /\ op.before.item_count = 0) =>
          inventory = op.before

\* add_item applied to an inventory that holds max_capacity = 20 items
C12_Witness ==
    /\ op.name = "add_item"
    /\ op.before.item_count = 20
    /\ op.before.max_capacity = 20
    /\ inventory = op.before

SpendCall == op.name = "spend_gold"

\* C13: spend_gold(inv, amount) returns the inventory unchanged when gold <
\* amount, and otherwise lowers gold by exactly amount (spending the whole
\* balance leaves 0) while leaving equipped_weapon, equipped_armor,
\* item_count and max_capacity unchanged; gold never underflows.
C13_SpendGold ==
    /\ inventory.gold >= 0
    /\ SpendCall =>
          IF op.before.gold < op.args[1]
          THEN inventory = op.before
          ELSE inventory = [equipped_weapon |-> op.before.equipped_weapon,
                            equipped_armor |-> op.before.equipped_armor,
                            item_count |-> op.before.item_count,
                            max_capacity |-> op.before.max_capacity,
                            gold |-> op.before.gold - op.args[1]]

\* the whole balance spent by an inventory that holds items and equipment
C13_Witness ==
    /\ SpendCall
    /\ op.args[1] > 0
    /\ op.before.gold = op.args[1]
    /\ op.before.item_count > 0
    /\ op.before.equipped_weapon # 0
    /\ inventory.gold = 0

(***************************************************************************)
(* Properties of item usage, checked under SpecUse.                        *)
(***************************************************************************)

\* C14: for current_health <= max_health, use_item returns: for 201 success
\* with health_restored = min(50, max_health - current_health); for 202
\* success with health_restored = max_health - current_health (90 for
\* current 10, max 100); for 203 success with attack_boost = 5 and for 204
\* success with defense_boost = 5, both with health_restored = 0; for 205
\* success with all numeric fields 0; for every other id success = false
\* with all numeric fields 0.
C14_UseItemResults ==
    (used.done /\ used.current_health <= used.max_health) =>
      LET id == used.item_id
          room == used.max_health - used.current_health
          r == used.result
          restored == r.health_restored.hi * 65536 + r.health_restored.lo
      IN /\ ~used.panicked
         /\ r.health_restored.hi = 0
         /\ r.success <=> id \in {201, 202, 203, 204, 205}
         /\ restored = (IF id = 201 THEN (IF room < 50 THEN room ELSE 50)
                        ELSE IF id = 202 THEN room
                        ELSE 0)
         /\ r.attack_boost = (IF id = 203 THEN 5 ELSE 0)
         /\ r.defense_boost = (IF id = 204 THEN 5 ELSE 0)
         /\ (id = 202 /\ used.current_health = 10 /\ used.max_health = 100) =>
               restored = 90

\* the full health potion used at 10 of 100 health
C14_Witness ==
    /\ used.done
    /\ used.item_id = 202
    /\ used.current_health = 10
    /\ used.max_health = 100
    /\ ~used.panicked
    /\ used.result.success
    /\ used.result.health_restored = [hi |-> 0, lo |-> 90]

\* C15 as stated: use_item is total: for every item id and every pair of
\* unsigned values (current_health, max_health), current_health > max_health
\* included, it returns a UseResult, and the computation of health_restored
\* (capped new health minus current health) never underflows or fails.
C15_UseItemTotal ==
    used.done =>
      /\ ~used.panicked
      /\ used.result.health_restored.hi = 0
      /\ used.result.health_restored.lo <= used.max_health

\* a health potion used at a current_health above max_health: the call
\* panics or returns a health_restored that wrapped around 2^32
C15_Witness ==
    /\ used.done
    /\ used.item_id \in {201, 202}
    /\ used.current_health > used.max_health
    /\ \/ used.panicked
       \/ used.result.health_restored.hi = 65535

(***************************************************************************)
(* Properties of healing, checked under SpecPlayer (C16) and SpecHeal      *)
(* (C17).                                                                  *)
(***************************************************************************)

\* C16: in every PlayerStats reachable from create_player through take_damage,
\* heal and gain_experience, health <= max_health.
C16_HealthAtMostMax == player.health <= player.max_health

\* a heal of a wounded player by more than the missing health, after a level-up
C16_Witness ==
    /\ op.name = "heal"
    /\ op.before.level > 1
    /\ op.before.health < op.before.max_health
    /\ op.before.health + op.args[1] > op.before.max_health
    /\ player.health = player.max_health

HealedCall == op.name = "calculate_healed_health"

\* C17: calculate_healed_health(current, amount, max) <= max for all
\* non-negative inputs, and healing by amount = 0 is idempotent: applying
\* calculate_healed_health(., 0, max) to its own result gives that result.
C17_HealedAtMostMaxIdempotent ==
    /\ HealedCall => healq.value <= healq.max
    /\ (HealedCall /\ op.args[1] = 0) =>
          calculate_healed_health(healq.impl, healq.value, 0, healq.max) = healq.value

\* a current value above max brought down to max by healing with amount 0
C17_Witness ==
    /\ HealedCall
    /\ op.args[1] = 0
    /\ op.before.value > op.before.max
    /\ healq.value = healq.max

(***************************************************************************)
(* Properties of the enemy AI, checked under SpecEnemy (C18) and SpecMove  *)
(* (C19, C20).                                                             *)
(***************************************************************************)
BehaviorCall == op.name = "update_behavior"

\* C18: update_behavior returns Flee exactly when the enemy's kind is not Boss
\* and its health is below 20 percent of max_health; in every other case it
\* returns the kind's default behaviour (Slime Wander, Skeleton Guard, Bat
\* Chase, Goblin Chase, DarkKnight Guard, Boss BossPattern), so a Boss never
\* flees, for every enemy state reachable from spawn by take_damage.
C18_FleeBelowTwentyPercent ==
    BehaviorCall =>
      LET e == op.before
          table == [Slime |-> "Wander", Skeleton |-> "Guard", Bat |-> "Chase",
                    Goblin |-> "Chase", DarkKnight |-> "Guard", Boss |-> "BossPattern"]
          low == e.health * 100 < 20 * e.max_health
      IN /\ ai.behavior = "Flee" <=> (e.kind # "Boss" /\ low)
         /\ ai.behavior # "Flee" => ai.behavior = table[e.kind]

\* a living enemy at the largest health that still makes it flee
C18_Witness ==
    /\ BehaviorCall
    /\ op.before.kind # "Boss"
    /\ op.before.health > 0
    /\ op.before.health * 100 < 20 * op.before.max_health
    /\ (op.before.health + 1) * 100 >= 20 * op.before.max_health
    /\ ai.behavior = "Flee"

Sign(n) == IF n > 0 THEN 1 ELSE IF n < 0 THEN -1 ELSE 0

Moved(behavior) == ai.done /\ ai.enemy.current_behavior = behavior

\* C19: calculate_move under Chase returns the enemy position moved by
\* sign(player - enemy) on each axis independently (0 on an axis where the
\* coordinates are equal, so diagonal steps occur), under Flee the enemy
\* position moved by the negated chase vector, and under Guard and
\* BossPattern the unchanged enemy position; a Chase enemy at (5,5) with the
\* player at (5,10) moves to (5,6).
C19_ChaseFleeGuardMoves ==
    LET pos == ai.enemy.pos
        sx == Sign(ai.player_pos.x - pos.x)
        sy == Sign(ai.player_pos.y - pos.y)
    IN /\ Moved("Chase") => ai.result = [x |-> pos.x + sx, y |-> pos.y + sy]
       /\ Moved("Flee") => ai.result = [x |-> pos.x - sx, y |-> pos.y - sy]
       /\ (Moved("Guard") \/ Moved("BossPattern")) => ai.result = pos
       /\ (Moved("Chase") /\ pos = [x |-> 5, y |-> 5]
             /\ ai.player_pos = [x |-> 5, y |-> 10]) =>
             ai.result = [x |-> 5, y |-> 6]

\* a fleeing enemy steps diagonally away from the player
C19_Witness ==
    /\ Moved("Flee")
    /\ ai.player_pos.x > ai.enemy.pos.x
    /\ ai.player_pos.y < ai.enemy.pos.y
    /\ ai.result = [x |-> ai.enemy.pos.x - 1, y |-> ai.enemy.pos.y + 1]

WanderStep(offset) ==
    CASE offset = 0 -> [x |-> 1, y |-> 0]
      [] offset = 1 -> [x |-> -1, y |-> 0]
      [] offset = 2 -> [x |-> 0, y |-> 1]
      [] offset = 3 -> [x |-> 0, y |-> -1]

\* C20 as stated: under Wander, calculate_move returns the enemy position
\* shifted by the unit step selected by (x + y) mod 4 (0 -> (+1,0),
\* 1 -> (-1,0), 2 -> (0,+1), 3 -> (0,-1)), for every integer enemy position
\* including those whose coordinate sum is negative.
C20_WanderByMod4 ==
    Moved("Wander") =>
      LET pos == ai.enemy.pos
          step == WanderStep((pos.x + pos.y) % 4)
      IN ai.result = [x |-> pos.x + step.x, y |-> pos.y + step.y]

\* C20 amended: under Wander, calculate_move returns the enemy position
\* shifted by exactly one unit step that depends on the enemy position only:
\* for x + y >= 0 the step selected by (x + y) mod 4 (0 -> (+1,0),
\* 1 -> (-1,0), 2 -> (0,+1), 3 -> (0,-1)); for x + y < 0 the remainder is
\* not positive, and the step is (+1,0) when x + y is a multiple of 4 and
\* (0,-1) otherwise.
C20_WanderByTruncatedRemainder ==
    Moved("Wander") =>
      LET pos == ai.enemy.pos
          sum == pos.x + pos.y
          step == IF sum >= 0 THEN WanderStep(sum % 4)
                  ELSE IF sum % 4 = 0 THEN [x |-> 1, y |-> 0]
                  ELSE [x |-> 0, y |-> -1]
      IN ai.result = [x |-> pos.x + step.x, y |-> pos.y + step.y]

\* a wandering enemy whose coordinate sum is -2 steps to (0,-1), not (0,+1)
C20_Witness ==
    /\ Moved("Wander")
    /\ ai.enemy.pos.x + ai.enemy.pos.y = -2
    /\ ai.result = [x |-> ai.enemy.pos.x, y |-> ai.enemy.pos.y - 1]

(***************************************************************************)
(* Properties of the game engine, checked under SpecAction (C21) and       *)
(* SpecWorld (C27).                                                        *)
(***************************************************************************)
PhaseOf(action) ==
    CASE action \in {"MoveNorth", "MoveSouth", "MoveEast", "MoveWest"} -> "Exploration"
      [] action = "Attack" -> "Combat"
      [] action = "Interact" -> "Dialogue"
      [] action = "OpenInventory" -> "Inventory"
      [] action = "Wait" -> "Exploration"
      [] action = "UseItem" -> "Exploration"
      [] action = "Quit" -> "GameOver"

ResultIsDispatchTable ==
    /\ engine.result.success
    /\ engine.result.new_phase = PhaseOf(engine.action)
    /\ engine.result.game_continues <=> engine.action # "Quit"
    /\ DOMAIN engine.result = {"success", "message", "new_phase", "game_continues"}

\* C21 as stated: for every GameState (any phase, any position, positions on
\* the border or out of bounds included) and every action, process_action
\* returns success = true with new_phase fixed by the action alone and
\* game_continues = false exactly when the action is Quit; no action returns a
\* player position.
C21_ProcessActionDispatch ==
    engine.done => (~engine.panicked /\ ResultIsDispatchTable)

\* the step of a move leaves the i32 range
MoveOverflows ==
    \/ engine.action = "MoveNorth" /\ engine.state.player_y = I32_MIN
    \/ engine.action = "MoveSouth" /\ engine.state.player_y = I32_MAX
    \/ engine.action = "MoveEast" /\ engine.state.player_x = I32_MAX
    \/ engine.action = "MoveWest" /\ engine.state.player_x = I32_MIN

\* C21, what the code does: whenever process_action returns, the result is
\* the dispatch table; it returns for every state and action except, in a
\* build with overflow checks, a move whose step leaves the i32 range.
C21_DispatchUnlessMoveOverflows ==
    engine.done =>
      /\ ~engine.panicked => ResultIsDispatchTable
      /\ engine.panicked => MoveOverflows

\* MoveEast at player_x = i32::MAX panics
C21_Witness ==
    /\ engine.done
    /\ engine.action = "MoveEast"
    /\ engine.state.player_x = I32_MAX
    /\ engine.panicked

\* C27 as stated: is_walkable(x, y) is true only inside the world grid: for
\* every (x, y) with is_in_bounds(x, y) = false, is_walkable(x, y) = false.
C27_WalkableOnlyInBounds ==
    (engine.done /\ ~is_in_bounds(engine.x, engine.y)) => ~engine.walkable

\* C27 amended: is_walkable(x, y) is true exactly when get_tile(x, y) is
\* neither Wall nor Water, and get_tile does not test the bounds: outside the
\* world grid a coordinate pair is Wall when x or y is 0 or 99 and walkable
\* otherwise, so the caller has to consult is_in_bounds itself.
C27_WalkableIffNotWallOrWater ==
    engine.done =>
      /\ engine.walkable <=> engine.tile \notin {"Wall", "Water"}
      /\ engine.tile = "Wall" <=> (engine.x \in {0, 99} \/ engine.y \in {0, 99})
      /\ ~is_in_bounds(engine.x, engine.y) =>
            (engine.walkable <=> (engine.x \notin {0, 99} /\ engine.y \notin {0, 99}))

\* a walkable tile left of the world grid
C27_Witness ==
    /\ engine.done
    /\ engine.x = -1
    /\ engine.y = 50
    /\ engine.tile = "Grass"
    /\ engine.walkable

(***************************************************************************)
(* Properties of repeated enemy calls, checked under SpecPursuit (C24,     *)
(* C25) and SpecAttrition (C26).                                           *)
(***************************************************************************)
Abs(n) == IF n < 0 THEN 0 - n ELSE n

\* max(|dx|, |dy|)
Distance(a, b) == Max(Abs(a.x - b.x), Abs(a.y - b.y))

\* C24: with a stationary player and an enemy kept in Chase behaviour whose
\* position is replaced by the result of calculate_move at each step, the
\* distance max(|dx|, |dy|) to the player drops by exactly 1 per step until
\* it is 0: the enemy reaches the player's tile after exactly max(|dx|, |dy|)
\* steps and stays there afterwards.
C24_ChaseConverges ==
    enemy.current_behavior = "Chase" =>
      LET d0 == Distance(steps.start, steps.player_pos)
      IN /\ Distance(enemy.pos, steps.player_pos) = Max(d0 - steps.count, 0)
         /\ steps.count >= d0 => enemy.pos = steps.player_pos

\* an enemy that started 3 or more tiles away, off the diagonal, stands on
\* the player's tile one step after reaching it
C24_Witness ==
    /\ enemy.current_behavior = "Chase"
    /\ Distance(steps.start, steps.player_pos) >= 3
    /\ Abs(steps.start.x - steps.player_pos.x) # Abs(steps.start.y - steps.player_pos.y)
    /\ steps.count = Distance(steps.start, steps.player_pos) + 1
    /\ enemy.pos = steps.player_pos

\* C25: an enemy kept in Wander behaviour whose coordinate sum is
\* non-negative and whose position is replaced by the result of
\* calculate_move at each step is back on its starting tile after every two
\* steps: it only ever alternates between two adjacent tiles.
C25_WanderAlternates ==
    (enemy.current_behavior = "Wander" /\ steps.start.x + steps.start.y >= 0) =>
      /\ steps.count % 2 = 0 => enemy.pos = steps.start
      /\ steps.count % 2 = 1 =>
            /\ Abs(enemy.pos.x - steps.start.x) + Abs(enemy.pos.y - steps.start.y) = 1
            /\ op.before.pos = steps.start

\* a wanderer with a negative x coordinate back on its starting tile after
\* four steps
C25_Witness ==
    /\ enemy.current_behavior = "Wander"
    /\ steps.start.x < 0
    /\ steps.start.x + steps.start.y >= 0
    /\ steps.count = 4
    /\ enemy.pos = steps.start

\* C26: every take_damage call on an enemy with health > 0 lowers its health
\* by at least 1, whatever raw_damage (even 0) and defense are, and no
\* take_damage call ever raises health or changes max_health, attack,
\* defense, position or kind; hence an enemy with health h is defeated after
\* at most h take_damage calls.
C26_DamageAlwaysLowersHealth ==
    /\ EnemyDamageCall =>
          /\ op.before.health > 0 => enemy.health <= op.before.health - 1
          /\ enemy.health <= op.before.health
          /\ enemy.max_health = op.before.max_health
          /\ enemy.attack = op.before.attack
          /\ enemy.defense = op.before.defense
          /\ enemy.pos = op.before.pos
          /\ enemy.kind = op.before.kind
    /\ enemy.health <= Max(steps.start_health - steps.count, 0)
    /\ steps.count >= steps.start_health => enemy_is_defeated(enemy)

\* a Boss brought down by 200 calls, the last one with raw_damage 0
C26_Witness ==
    /\ EnemyDamageCall
    /\ enemy.kind = "Boss"
    /\ steps.count = steps.start_health
    /\ op.args[1] = 0
    /\ op.before.health = 1
    /\ enemy.health = 0
    /\ enemy_is_defeated(enemy)

(***************************************************************************)
(* Properties of the command driver, checked under SpecGame.               *)
(***************************************************************************)

\* the last step executed the command of the given kind
Executed(kind) == op.name = "execute_command" /\ op.args[1][1] = kind

\* the tile a move in the direction leads to
move_target(state, dir) ==
    CASE dir = "North" -> [x |-> state.player_x, y |-> state.player_y - 1]
      [] dir = "South" -> [x |-> state.player_x, y |-> state.player_y + 1]
      [] dir = "East" -> [x |-> state.player_x + 1, y |-> state.player_y]
      [] dir = "West" -> [x |-> state.player_x - 1, y |-> state.player_y]

InMap(x, y) == x \in 0..(MAP_WIDTH - 1) /\ y \in 0..(MAP_HEIGHT - 1)

OnGrass(x, y) == InMap(x, y) /\ generate_terrain[y][x] = "Grass"

\* C22: a move command whose target tile lies outside the 20x15 map or is
\* not a Grass tile leaves player_x and player_y unchanged, and in every
\* state reached from SimpleGameState::new() the player stands on an
\* in-bounds Grass tile.
C22_PlayerStaysOnGrass ==
    /\ Executed("Move") =>
          LET t == move_target(op.before, op.args[1][2])
          IN ~OnGrass(t.x, t.y) =>
                /\ game.player_x = op.before.player_x
                /\ game.player_y = op.before.player_y
    /\ OnGrass(game.player_x, game.player_y)

\* a move south from the bottom row of the map
C22_Witness ==
    /\ Executed("Move")
    /\ op.args[1][2] = "South"
    /\ op.before.player_y = MAP_HEIGHT - 1
    /\ ~InMap(op.before.player_x, op.before.player_y + 1)
    /\ game.player_y = MAP_HEIGHT - 1
    /\ game.player_x = op.before.player_x

\* a move into the pond is refused as well
C22_WaterReached ==
    /\ Executed("Move")
    /\ LET t == move_target(op.before, op.args[1][2])
       IN InMap(t.x, t.y) /\ generate_terrain[t.y][t.x] = "Water"

\* C23: use_potion with potions > 0 lowers potions by exactly 1 and sets
\* health to min(health + 30, max_health); with potions = 0 it changes
\* neither health nor potions; potions is never negative in a state reached
\* from SimpleGameState::new().
C23_UsePotion ==
    /\ Executed("UseItem") =>
          LET before == op.before
              after == use_potion(before)
          IN /\ before.potions > 0 =>
                   /\ after.potions = before.potions - 1
                   /\ after.health = Min(before.health + 30, before.max_health)
             /\ before.potions = 0 =>
                   /\ after.potions = before.potions
                   /\ after.health = before.health
             /\ game = end_turn(after)
    /\ game.potions >= 0

\* a potion drunk at a health more than 30 below max_health
C23_Witness ==
    /\ Executed("UseItem")
    /\ op.before.potions > 0
    /\ op.before.health + 30 < op.before.max_health
    /\ use_potion(op.before).health = op.before.health + 30
    /\ game.potions = op.before.potions - 1

\* the command given with no potion left
C23_EmptyReached ==
    /\ Executed("UseItem")
    /\ op.before.potions = 0
    /\ game.potions = 0

\* a potion drunk within 30 of max_health
C23_CapReached ==
    /\ Executed("UseItem")
    /\ op.before.potions > 0
    /\ op.before.health + 30 > op.before.max_health
    /\ use_potion(op.before).health = op.before.max_health

EnemiesApart(state) ==
    \A i, j \in 1..Len(state.enemies) :
        i # j => ~(state.enemies[i].x = state.enemies[j].x
                   /\ state.enemies[i].y = state.enemies[j].y)

EnemyOnPlayer(state) ==
    \E i \in 1..Len(state.enemies) :
        state.enemies[i].x = state.player_x /\ state.enemies[i].y = state.player_y

\* C28: after any sequence of commands from SimpleGameState::new(), no two
\* enemies occupy the same tile and no enemy occupies the player's tile.
C28_TilesExclusive == EnemiesApart(game) /\ ~EnemyOnPlayer(game)

\* C28, the part the driver keeps: no two enemies occupy the same tile, no
\* enemy ever moves onto the player's tile, and an enemy shares the player's
\* tile only after the player has moved onto it (or has stayed on it since).
C28_OnlyPlayerStepsOnEnemy ==
    /\ EnemiesApart(game)
    /\ (op.name = "execute_command" /\ EnemyOnPlayer(game)) =>
          \/ EnemyOnPlayer(op.before)
          \/ /\ Executed("Move")
             /\ LET t == move_target(op.before, op.args[1][2])
                IN /\ game.player_x = t.x /\ game.player_y = t.y
                   /\ find_enemy_at(op.before.enemies, t.x, t.y) # 0
    /\ op.name = "new" => ~EnemyOnPlayer(game)

\* the player has walked onto the tile of an enemy
C28_Witness ==
    /\ Executed("Move")
    /\ ~EnemyOnPlayer(op.before)
    /\ find_enemy_at(game.enemies, game.player_x, game.player_y) # 0
    /\ (game.player_x # op.before.player_x \/ game.player_y # op.before.player_y)

BossAlive(state) == \E i \in 1..Len(state.enemies) : state.enemies[i].kind = "Boss"

LoopStopped == ~loop_continues(game)

GameEndsProperly ==
    /\ LoopStopped =>
          \/ Executed("Quit")
          \/ game.health <= 0
          \/ game.enemies = <<>>
    /\ steps.bonuses <= 1
    /\ game.score >= 500 * steps.bonuses
    /\ LoopStopped => ~(game.enemies = <<>> /\ game.health <= 0)

\* C30: along every run of run_game_loop from SimpleGameState::new(),
\* is_running goes from true to false at most once and never back; the loop
\* stops only in a state where Quit was issued, health <= 0, or the enemy
\* list is empty; the 500-point victory bonus is added at most once; and the
\* final state never has both an empty enemy list and health <= 0.
C30_GameEndsOnce ==
    /\ []GameEndsProperly
    /\ [][~game.is_running => ~game'.is_running]_vars
    /\ [][steps'.bonuses > steps.bonuses =>
             game.is_running /\ ~game'.is_running /\ game'.score >= game.score + 500]_vars

\* the last enemy falls: the bonus is added, the loop stops, the player lives
C30_Witness ==
    /\ Executed("Attack")
    /\ op.before.is_running /\ ~game.is_running
    /\ LoopStopped
    /\ Len(op.before.enemies) = 1 /\ game.enemies = <<>>
    /\ steps.bonuses = 1
    /\ game.score = op.before.score + op.before.enemies[1].exp * 10 + 500
    /\ game.health > 0

\* the loop stopped by a defeat
C30_DefeatReached ==
    /\ LoopStopped /\ game.health <= 0 /\ ~game.is_running
    /\ game.enemies # <<>> /\ ~Executed("Quit")

\* the loop stopped by Quit
C30_QuitReached ==
    /\ LoopStopped /\ Executed("Quit") /\ ~game.is_running
    /\ game.health > 0 /\ game.enemies # <<>>

=============================================================================
